---- MODULE Spec2Model ----
(***************************************************************************)
(* ArchAssistant: the rule engine (architecture/rules.py) and the flow     *)
(* extractor (core/flow.py, reports/usecase_report.py) over the graph      *)
(* model of analyzer/model.py.                                             *)
(*                                                                         *)
(* A Graph is a list of Component records and a list of Dependency         *)
(* records.  Of a Component the analyses below read id, name and layer.    *)
(* The Layer enum is represented by the enum members' string values.       *)
(***************************************************************************)
EXTENDS Integers, Sequences, FiniteSets, TLC

VARIABLES
    components,     \* Graph.components: sequence of [id, name, layer]
    dependencies,   \* Graph.dependencies: sequence of [source_id, target_id, kind]
    pc,             \* which operation has run on the inputs
    violations,     \* List[RuleViolation]: result of analyze_layer_rules / input of score_project
    summary,        \* RuleAnalysisSummary of run_rule_analysis
    score,          \* last value returned by score_project
    start_id,       \* start_id / entry_component_id argument
    max_depth,      \* max_depth argument
    paths,          \* result of compute_flow_paths
    flow,           \* outcome of compute_flow_path / build_use_case_report
    bc_result,      \* BoundedContextAnalysisResult of analyze_bounded_contexts
    smells,         \* List[ComponentSmell] of a smell detector
    metrics,        \* UseCaseEventReadinessMetrics
    readiness,      \* UseCaseEventReadinessScore of score_use_case_event_readiness
    event_suggestions,  \* result of suggest_event_refactorings_for_use_case
    report,         \* summaries and refactoring suggestions of a use-case report
    planner_input,  \* arguments of the migration planner
    plan,           \* the MigrationPlans returned so far, the last one last
    csv,            \* text returned by render_migration_plan_csv
    target_data,    \* parsed JSON of a target-architecture file
    loaded_spec,    \* outcome of load_target_architecture_spec
    classifier_input,  \* arguments of classify_component
    classified,     \* layer returned by classify_component
    window          \* fields of MainWindow that hold the graph and what is derived from it

\* The variables of the analyses of src/analysis.
analysis_vars == <<bc_result, smells, metrics, readiness, event_suggestions,
                   report, planner_input, plan, csv>>

\* The variables of the loaders, the classifier and the main window.
window_vars == <<target_data, loaded_spec, classifier_input, classified, window>>

vars == <<components, dependencies, pc, violations, summary, score,
          start_id, max_depth, paths, flow, bc_result, smells, metrics,
          readiness, event_suggestions, report, planner_input, plan, csv,
          target_data, loaded_spec, classifier_input, classified, window>>

(***************************************************************************)
(* Bounds of the explored inputs.                                          *)
(***************************************************************************)
MaxDeps == 2
MaxViolations == 9
MaxDepthBound == 2

\* Placeholders for a result that has not been computed.
NoSummary == [score |-> -1]
NoScore == "none"
NoFlow == [outcome |-> "none"]
NoStart == "none"
NoResult == [outcome |-> "none"]

\* No analysis of src/analysis has run and none has been given an input.
AnalysesIdle ==
    /\ bc_result = NoResult
    /\ smells = <<>>
    /\ metrics = NoResult
    /\ readiness = NoResult
    /\ event_suggestions = <<>>
    /\ report = NoResult
    /\ planner_input = NoResult
    /\ plan = <<>>
    /\ csv = <<>>

\* Nothing has been loaded or classified and no window is open.
WindowIdle ==
    /\ target_data = NoResult
    /\ loaded_spec = NoResult
    /\ classifier_input = NoResult
    /\ classified = NoResult
    /\ window = NoResult

(***************************************************************************)
(* analyzer/model.py                                                       *)
(***************************************************************************)
Kinds == {"import", "extends", "implements"}

Component(id, name, layer) == [id |-> id, name |-> name, layer |-> layer]

Dependency(source_id, target_id, kind) ==
    [source_id |-> source_id, target_id |-> target_id, kind |-> kind]

\* {component.id: component for component in graph.components}: a later
\* component of the same id replaces an earlier one.
components_by_id(comps) ==
    [cid \in {comps[i].id : i \in DOMAIN comps} |->
        comps[CHOOSE i \in DOMAIN comps :
                /\ comps[i].id = cid
                /\ \A j \in DOMAIN comps : comps[j].id = cid => j <= i]]

(***************************************************************************)
(* architecture/rules.py                                                   *)
(***************************************************************************)
Layer == {"domain", "application", "inbound_adapter", "inbound_port",
          "outbound_port", "outbound_adapter", "unknown"}

map_layer(value) == IF value \in Layer THEN value ELSE "unknown"

\* Variant: outbound_adapter added to the set of application.
ALLOWED_DEPENDENCIES_adapter_allowed ==
    [l \in Layer |->
        CASE l = "domain" -> {"domain", "unknown"}
          [] l = "application" ->
                {"application", "domain", "inbound_port", "outbound_port",
                 "outbound_adapter", "unknown"}
          [] l = "inbound_adapter" -> {"inbound_port", "application", "unknown"}
          [] l = "inbound_port" -> {"application", "domain", "unknown"}
          [] l = "outbound_port" -> {"domain", "application", "unknown"}
          [] l = "outbound_adapter" -> {"outbound_port", "unknown"}
          [] l = "unknown" -> Layer]

ALLOWED_DEPENDENCIES ==
    [l \in Layer |->
        CASE l = "domain" -> {"domain", "unknown"}
          [] l = "application" ->
                {"application", "domain", "inbound_port", "outbound_port", "unknown"}
          [] l = "inbound_adapter" -> {"inbound_port", "application", "unknown"}
          [] l = "inbound_port" -> {"application", "domain", "unknown"}
          [] l = "outbound_port" -> {"domain", "application", "unknown"}
          [] l = "outbound_adapter" -> {"outbound_port", "unknown"}
          [] l = "unknown" -> Layer]

\* SEVERITY_WEIGHT.get(severity, 1)
SEVERITY_WEIGHT(severity) ==
    CASE severity = "info" -> 1
      [] severity = "warning" -> 3
      [] severity = "error" -> 7
      [] OTHER -> 1

\* Variant: DOMAIN_DEPENDS_ON_ADAPTER weighs 4 like the other two rules.
EXTRA_RULE_WEIGHT_uniform(rule_id) ==
    CASE rule_id = "DOMAIN_DEPENDS_ON_ADAPTER" -> 4
      [] rule_id = "APPLICATION_DEPENDS_ON_ADAPTER" -> 4
      [] rule_id = "ADAPTER_DIRECTLY_DEPENDS_ON_DOMAIN" -> 4
      [] OTHER -> 0

\* EXTRA_RULE_WEIGHT.get(rule_id, 0)
EXTRA_RULE_WEIGHT(rule_id) ==
    CASE rule_id = "DOMAIN_DEPENDS_ON_ADAPTER" -> 5
      [] rule_id = "APPLICATION_DEPENDS_ON_ADAPTER" -> 4
      [] rule_id = "ADAPTER_DIRECTLY_DEPENDS_ON_DOMAIN" -> 4
      [] OTHER -> 0

RuleViolation(rule_id, severity, head, source, target, dep) ==
    [rule_id |-> rule_id,
     severity |-> severity,
     message |-> <<head, source.name, source.layer, target.name, target.layer>>,
     source_component_id |-> source.id,
     target_component_id |-> target.id,
     source_layer |-> map_layer(source.layer),
     target_layer |-> map_layer(target.layer),
     dependency_kind |-> dep.kind]

\* Variant: the table is looked up with source and target swapped.
forbidden_layer_dependency_swapped(source, target, dep) ==
    IF map_layer(source.layer) \notin ALLOWED_DEPENDENCIES[map_layer(target.layer)]
    THEN <<RuleViolation("FORBIDDEN_LAYER_DEPENDENCY", "warning",
                         "Layer rule violation", source, target, dep)>>
    ELSE <<>>

\* The four rule checks of the loop body, each appending at most one violation.
forbidden_layer_dependency(source, target, dep) ==
    IF map_layer(target.layer) \notin ALLOWED_DEPENDENCIES[map_layer(source.layer)]
    THEN <<RuleViolation("FORBIDDEN_LAYER_DEPENDENCY", "warning",
                         "Layer rule violation", source, target, dep)>>
    ELSE <<>>

domain_depends_on_adapter(source, target, dep) ==
    IF /\ map_layer(source.layer) = "domain"
       /\ map_layer(target.layer) \in {"inbound_adapter", "outbound_adapter"}
    THEN <<RuleViolation("DOMAIN_DEPENDS_ON_ADAPTER", "error",
                         "Domain must not depend on any adapter", source, target, dep)>>
    ELSE <<>>

application_depends_on_adapter(source, target, dep) ==
    IF /\ map_layer(source.layer) = "application"
       /\ map_layer(target.layer) \in {"inbound_adapter", "outbound_adapter"}
    THEN <<RuleViolation("APPLICATION_DEPENDS_ON_ADAPTER", "warning",
                         "Prefer ports instead", source, target, dep)>>
    ELSE <<>>

\* Variant: ports count as adapters.
adapter_directly_depends_on_domain_ports(source, target, dep) ==
    IF /\ map_layer(source.layer) \in {"inbound_adapter", "outbound_adapter",
                                       "inbound_port", "outbound_port"}
       /\ map_layer(target.layer) = "domain"
    THEN <<RuleViolation("ADAPTER_DIRECTLY_DEPENDS_ON_DOMAIN", "warning",
                         "Prefer ports/use-cases", source, target, dep)>>
    ELSE <<>>

adapter_directly_depends_on_domain(source, target, dep) ==
    IF /\ map_layer(source.layer) \in {"inbound_adapter", "outbound_adapter"}
       /\ map_layer(target.layer) = "domain"
    THEN <<RuleViolation("ADAPTER_DIRECTLY_DEPENDS_ON_DOMAIN", "warning",
                         "Prefer ports/use-cases", source, target, dep)>>
    ELSE <<>>

\* One iteration of the loop over graph.dependencies: the violations it appends.
dep_violations(by_id, dep) ==
    IF dep.source_id \notin DOMAIN by_id \/ dep.target_id \notin DOMAIN by_id
    THEN <<>>
    ELSE LET source == by_id[dep.source_id]
             target == by_id[dep.target_id]
         IN  forbidden_layer_dependency(source, target, dep)
               \o domain_depends_on_adapter(source, target, dep)
               \o application_depends_on_adapter(source, target, dep)
               \o adapter_directly_depends_on_domain(source, target, dep)

RECURSIVE rules_loop(_, _, _)
rules_loop(by_id, deps, i) ==
    IF i > Len(deps) THEN <<>>
    ELSE dep_violations(by_id, deps[i]) \o rules_loop(by_id, deps, i + 1)

analyze_layer_rules(comps, deps) == rules_loop(components_by_id(comps), deps, 1)

RECURSIVE score_loop(_, _, _)
score_loop(vs, i, acc) ==
    IF i > Len(vs) THEN acc
    ELSE score_loop(vs, i + 1,
                    acc - (SEVERITY_WEIGHT(vs[i].severity)
                             + EXTRA_RULE_WEIGHT(vs[i].rule_id)))

\* Variant: the result is not clamped at 0.
score_project_unclamped(vs) == score_loop(vs, 1, 100)

score_project(vs) ==
    LET s == score_loop(vs, 1, 100) IN IF s > 0 THEN s ELSE 0

\* violations_by_rule[rule_id] and violations_by_layer_pair[key] after the loop
count_rule(vs, rule_id) == Cardinality({i \in DOMAIN vs : vs[i].rule_id = rule_id})

count_layer_pair(vs, key) ==
    Cardinality({i \in DOMAIN vs : <<vs[i].source_layer, vs[i].target_layer>> = key})

run_rule_analysis(comps, deps) ==
    LET vs == analyze_layer_rules(comps, deps)
        rule_ids == {vs[i].rule_id : i \in DOMAIN vs}
        layer_pairs == {<<vs[i].source_layer, vs[i].target_layer>> : i \in DOMAIN vs}
    IN  [violations |-> vs,
         summary |->
            [score |-> score_project(vs),
             total_components |-> Len(comps),
             total_dependencies |-> Len(deps),
             total_violations |-> Len(vs),
             violations_by_rule |->
                [r \in rule_ids |-> count_rule(vs, r)],
             violations_by_layer_pair |->
                [p \in layer_pairs |-> count_layer_pair(vs, p)]]]

(***************************************************************************)
(* core/flow.py                                                            *)
(***************************************************************************)
RECURSIVE concat_all(_)
concat_all(ss) == IF ss = <<>> THEN <<>> ELSE Head(ss) \o concat_all(Tail(ss))

\* _build_adjacency: outgoing.get(cid, []) and incoming.get(cid, [])
outgoing(deps, cid) == SelectSeq(deps, LAMBDA dep : dep.source_id = cid)
incoming(deps, cid) == SelectSeq(deps, LAMBDA dep : dep.target_id = cid)

\* The seen/unique loop closing get_flow_neighbors: first occurrences, in order.
RECURSIVE unique_by_id(_, _, _)
unique_by_id(result, i, seen) ==
    IF i > Len(result) THEN <<>>
    ELSE IF result[i].id \in seen THEN unique_by_id(result, i + 1, seen)
    ELSE <<result[i]>> \o unique_by_id(result, i + 1, seen \cup {result[i].id})

\* for dep in outgoing[component.id]: append the target when it is a component
\* and its layer is in target_layers
targets_in(by_id, deps, cid, target_layers) ==
    LET out == outgoing(deps, cid)
    IN  concat_all([i \in DOMAIN out |->
            IF /\ out[i].target_id \in DOMAIN by_id
               /\ by_id[out[i].target_id].layer \in target_layers
            THEN <<by_id[out[i].target_id]>> ELSE <<>>])

\* for dep in incoming[component.id]: append the source when it is a component
\* of layer source_layer and dep.kind in ("implements", "import")
sources_in(by_id, deps, cid, source_layer) ==
    LET inc == incoming(deps, cid)
    IN  concat_all([i \in DOMAIN inc |->
            IF /\ inc[i].source_id \in DOMAIN by_id
               /\ by_id[inc[i].source_id].layer = source_layer
               /\ inc[i].kind \in {"implements", "import"}
            THEN <<by_id[inc[i].source_id]>> ELSE <<>>])

\* the domain branch: the outbound ports of every application component that
\* depends on the domain component
ports_via_application(by_id, deps, cid) ==
    LET inc == incoming(deps, cid)
    IN  concat_all([i \in DOMAIN inc |->
            IF /\ inc[i].source_id \in DOMAIN by_id
               /\ by_id[inc[i].source_id].layer = "application"
            THEN targets_in(by_id, deps, inc[i].source_id, {"outbound_port"})
            ELSE <<>>])

\* Variant: an application component also steps to the application components it uses.
get_flow_neighbors_application_step(component, by_id, deps) ==
    LET result ==
            (IF component.layer = "inbound_adapter"
             THEN targets_in(by_id, deps, component.id, {"inbound_port"}) ELSE <<>>)
         \o (IF component.layer = "application"
             THEN targets_in(by_id, deps, component.id, {"application", "domain", "outbound_port"})
             ELSE <<>>)
         \o (IF component.layer = "inbound_port"
             THEN sources_in(by_id, deps, component.id, "application") ELSE <<>>)
         \o (IF component.layer = "domain"
             THEN ports_via_application(by_id, deps, component.id) ELSE <<>>)
         \o (IF component.layer = "outbound_port"
             THEN sources_in(by_id, deps, component.id, "outbound_adapter") ELSE <<>>)
    IN  unique_by_id(result, 1, {})

get_flow_neighbors(component, by_id, deps) ==
    LET result ==
            (IF component.layer = "inbound_adapter"
             THEN targets_in(by_id, deps, component.id, {"inbound_port"}) ELSE <<>>)
         \o (IF component.layer = "application"
             THEN targets_in(by_id, deps, component.id, {"domain", "outbound_port"})
             ELSE <<>>)
         \o (IF component.layer = "inbound_port"
             THEN sources_in(by_id, deps, component.id, "application") ELSE <<>>)
         \o (IF component.layer = "domain"
             THEN ports_via_application(by_id, deps, component.id) ELSE <<>>)
         \o (IF component.layer = "outbound_port"
             THEN sources_in(by_id, deps, component.id, "outbound_adapter") ELSE <<>>)
    IN  unique_by_id(result, 1, {})

\* The closure dfs of compute_flow_paths.  st holds the three objects the
\* recursion shares and mutates: the list paths, the list path, the set visited.
RECURSIVE dfs(_, _, _, _, _, _)
RECURSIVE dfs_neighbors(_, _, _, _, _, _, _)
\* Variant: path.pop() is missing.
dfs_no_pop(by_id, deps, depth_limit, current_id, depth, st) ==
    IF depth > depth_limit
    THEN [st EXCEPT !.paths = Append(@, st.path)]
    ELSE IF current_id \notin DOMAIN by_id THEN st
    ELSE LET entered == [st EXCEPT !.path = Append(@, current_id),
                                   !.visited = @ \cup {current_id}]
             neighbors == get_flow_neighbors(by_id[current_id], by_id, deps)
             explored ==
                IF neighbors = <<>>
                THEN [entered EXCEPT !.paths = Append(@, entered.path)]
                ELSE dfs_neighbors(by_id, deps, depth_limit, neighbors, 1, depth, entered)
         IN  [explored EXCEPT !.visited = @ \ {current_id}]

\* Variant: the depth test is made after the node is entered.
dfs_late_depth_test(by_id, deps, depth_limit, current_id, depth, st) ==
    IF current_id \notin DOMAIN by_id THEN st
    ELSE LET entered == [st EXCEPT !.path = Append(@, current_id),
                                   !.visited = @ \cup {current_id}]
             neighbors == get_flow_neighbors(by_id[current_id], by_id, deps)
             explored ==
                IF neighbors = <<>> \/ depth > depth_limit
                THEN [entered EXCEPT !.paths = Append(@, entered.path)]
                ELSE dfs_neighbors(by_id, deps, depth_limit, neighbors, 1, depth, entered)
         IN  [explored EXCEPT !.path = SubSeq(@, 1, Len(@) - 1),
                              !.visited = @ \ {current_id}]

\* Variant: visited.remove(current_id) is missing.
dfs_no_remove(by_id, deps, depth_limit, current_id, depth, st) ==
    IF depth > depth_limit
    THEN [st EXCEPT !.paths = Append(@, st.path)]
    ELSE IF current_id \notin DOMAIN by_id THEN st
    ELSE LET entered == [st EXCEPT !.path = Append(@, current_id),
                                   !.visited = @ \cup {current_id}]
             neighbors == get_flow_neighbors(by_id[current_id], by_id, deps)
             explored ==
                IF neighbors = <<>>
                THEN [entered EXCEPT !.paths = Append(@, entered.path)]
                ELSE dfs_neighbors(by_id, deps, depth_limit, neighbors, 1, depth, entered)
         IN  [explored EXCEPT !.path = SubSeq(@, 1, Len(@) - 1)]

dfs(by_id, deps, depth_limit, current_id, depth, st) ==
    IF depth > depth_limit
    THEN [st EXCEPT !.paths = Append(@, st.path)]
    ELSE IF current_id \notin DOMAIN by_id THEN st
    ELSE LET entered == [st EXCEPT !.path = Append(@, current_id),
                                   !.visited = @ \cup {current_id}]
             neighbors == get_flow_neighbors(by_id[current_id], by_id, deps)
             explored ==
                IF neighbors = <<>>
                THEN [entered EXCEPT !.paths = Append(@, entered.path)]
                ELSE dfs_neighbors(by_id, deps, depth_limit, neighbors, 1, depth, entered)
         IN  [explored EXCEPT !.path = SubSeq(@, 1, Len(@) - 1),
                              !.visited = @ \ {current_id}]

\* for neighbor in neighbors: if neighbor.id not in visited: dfs(neighbor.id, depth + 1, ...)
dfs_neighbors(by_id, deps, depth_limit, neighbors, i, depth, st) ==
    IF i > Len(neighbors) THEN st
    ELSE dfs_neighbors(by_id, deps, depth_limit, neighbors, i + 1, depth,
            IF neighbors[i].id \notin st.visited
            THEN dfs(by_id, deps, depth_limit, neighbors[i].id, depth + 1, st)
            ELSE st)

\* The state of the recursion when dfs(start_id, 0, [], set()) returns.
dfs_run(comps, deps, start, depth_limit) ==
    dfs(components_by_id(comps), deps, depth_limit, start, 0,
        [paths |-> <<>>, path |-> <<>>, visited |-> {}])

compute_flow_paths(comps, deps, start, depth_limit) ==
    dfs_run(comps, deps, start, depth_limit).paths

\* _score_path: the key (1 if has_outbound else 0, len(path))
score_path(path, by_id) ==
    LET layers == {by_id[path[i]].layer : i \in {j \in DOMAIN path : path[j] \in DOMAIN by_id}}
    IN  <<IF layers \cap {"outbound_port", "outbound_adapter"} # {} THEN 1 ELSE 0,
          Len(path)>>

\* Python's order of the key tuples.
key_less(a, b) == a[1] < b[1] \/ (a[1] = b[1] /\ a[2] < b[2])

\* Variant: the first enumerated path is taken.
max_by_score_first(ps, by_id) == ps[1]

\* max(paths, key=...): the first path whose key no other path's key exceeds.
max_by_score(ps, by_id) ==
    ps[CHOOSE i \in DOMAIN ps :
        /\ \A j \in DOMAIN ps : ~key_less(score_path(ps[i], by_id), score_path(ps[j], by_id))
        /\ \A j \in 1..(i - 1) : key_less(score_path(ps[j], by_id), score_path(ps[i], by_id))]

\* _edge_map: the last dependency of each (source_id, target_id) pair;
\* _edge_for: the (source, target) entry, else the (target, source) entry.
edge_for(deps, a, b) ==
    LET entry(s, t) == {i \in DOMAIN deps : deps[i].source_id = s /\ deps[i].target_id = t}
        last(S) == CHOOSE i \in S : \A j \in S : j <= i
    IN  IF entry(a, b) # {} THEN <<deps[last(entry(a, b))]>>
        ELSE IF entry(b, a) # {} THEN <<deps[last(entry(b, a))]>>
        ELSE <<>>

FlowResult(nodes, edges) == [outcome |-> "returned", nodes |-> nodes, edges |-> edges]

\* Variant: a node is appended only when a next node follows it.
compute_flow_path_drop_last(comps, deps, start, depth_limit) ==
    LET by_id == components_by_id(comps)
        ps == compute_flow_paths(comps, deps, start, depth_limit)
    IN  IF ps = <<>> THEN FlowResult(<<>>, <<>>)
        ELSE LET best_path == max_by_score(ps, by_id)
             IN  FlowResult(
                    concat_all([i \in DOMAIN best_path |->
                        IF best_path[i] \in DOMAIN by_id /\ i + 1 <= Len(best_path)
                        THEN <<by_id[best_path[i]]>> ELSE <<>>]),
                    concat_all([i \in DOMAIN best_path |->
                        IF i + 1 <= Len(best_path)
                        THEN edge_for(deps, best_path[i], best_path[i + 1])
                        ELSE <<>>]))

compute_flow_path(comps, deps, start, depth_limit) ==
    LET by_id == components_by_id(comps)
        ps == compute_flow_paths(comps, deps, start, depth_limit)
    IN  IF ps = <<>> THEN FlowResult(<<>>, <<>>)
        ELSE LET best_path == max_by_score(ps, by_id)
             IN  FlowResult(
                    concat_all([i \in DOMAIN best_path |->
                        IF best_path[i] \in DOMAIN by_id
                        THEN <<by_id[best_path[i]]>> ELSE <<>>]),
                    concat_all([i \in DOMAIN best_path |->
                        IF i + 1 <= Len(best_path)
                        THEN edge_for(deps, best_path[i], best_path[i + 1])
                        ELSE <<>>]))

(***************************************************************************)
(* reports/usecase_report.py                                               *)
(***************************************************************************)
DEFAULT_MAX_DEPTH == 12

\* _build_steps: one step per pair of consecutive flow nodes.
build_steps(deps, nodes) ==
    [idx \in 1..(Len(nodes) - 1) |->
        LET edge == edge_for(deps, nodes[idx].id, nodes[idx + 1].id)
        IN  [order |-> idx,
             source_id |-> nodes[idx].id,
             target_id |-> nodes[idx + 1].id,
             source_layer |-> nodes[idx].layer,
             target_layer |-> nodes[idx + 1].layer,
             dependency_kind |-> IF edge # <<>> THEN edge[1].kind ELSE "unknown"]]

\* build_use_case_report: the unknown-entry check, the flow and its steps (the
\* metrics, smells and markdown of the report are renderings of these).
build_use_case_report(comps, deps, entry_component_id) ==
    IF entry_component_id \notin DOMAIN components_by_id(comps)
    THEN [outcome |-> "ValueError"]
    ELSE LET f == compute_flow_path(comps, deps, entry_component_id, DEFAULT_MAX_DEPTH)
         IN  [outcome |-> "returned",
              entry_component_id |-> entry_component_id,
              nodes |-> f.nodes,
              edges |-> f.edges,
              flow_steps |-> build_steps(deps, f.nodes)]

(***************************************************************************)
(* Inputs of the rule engine: graphs of two components with every layer    *)
(* string (the seven enum values and one string outside the enum), and up  *)
(* to MaxDeps dependencies among the two ids and a dangling id.            *)
(***************************************************************************)
LayerStrings == Layer \cup {"infrastructure"}
DanglingId == "ghost"

SeqsUpTo(S, n) == UNION {[1..k -> S] : k \in 0..n}

DependenciesOver(ids, kinds) ==
    {Dependency(s, t, k) : s \in ids, t \in ids, k \in kinds}

\* The rule engine only copies dep.kind into the violation: two kinds are explored.
RuleKinds == {"import", "extends"}

RuleGraphComponents ==
    {<<Component("c1", "C1", l1), Component("c2", "C2", l2)>> :
        l1 \in LayerStrings, l2 \in LayerStrings}

InitRules ==
    /\ WindowIdle
    /\ components \in RuleGraphComponents
    /\ dependencies \in SeqsUpTo(DependenciesOver({"c1", "c2", DanglingId}, RuleKinds), MaxDeps)
    /\ pc = "loaded"
    /\ violations = <<>>
    /\ summary = NoSummary
    /\ score = NoScore
    /\ start_id = NoStart
    /\ max_depth = 0
    /\ paths = <<>>
    /\ flow = NoFlow
    /\ AnalysesIdle

\* violations = analyze_layer_rules(graph)
AnalyzeLayerRules ==
    /\ UNCHANGED window_vars
    /\ pc = "loaded"
    /\ violations' = analyze_layer_rules(components, dependencies)
    /\ pc' = "analyzed"
    /\ UNCHANGED analysis_vars
    /\ UNCHANGED <<components, dependencies, summary, score,
                   start_id, max_depth, paths, flow>>

\* violations, summary = run_rule_analysis(graph)
RunRuleAnalysis ==
    /\ UNCHANGED window_vars
    /\ pc = "loaded"
    /\ LET r == run_rule_analysis(components, dependencies)
       IN  /\ violations' = r.violations
           /\ summary' = r.summary
           /\ score' = r.summary.score
    /\ pc' = "summarized"
    /\ UNCHANGED analysis_vars
    /\ UNCHANGED <<components, dependencies, start_id, max_depth, paths, flow>>

NextRules == AnalyzeLayerRules \/ RunRuleAnalysis

Spec == InitRules /\ [][NextRules]_vars

(***************************************************************************)
(* Inputs of the flow extractor: graphs of three components c1, c2, c3     *)
(* whose layers are three consecutive stages of a flow (with and without   *)
(* the domain stage), or include a component of layer unknown or two       *)
(* application components; up to MaxDeps dependencies of every kind among  *)
(* the three ids and a dangling id; every start id (the dangling id too)   *)
(* and every max_depth in -1..MaxDepthBound.                               *)
(***************************************************************************)
FlowLayerings ==
    {<<"inbound_adapter", "inbound_port", "application">>,
     <<"inbound_port", "application", "domain">>,
     <<"application", "domain", "outbound_port">>,
     <<"domain", "outbound_port", "outbound_adapter">>,
     <<"inbound_port", "application", "outbound_port">>,
     <<"application", "outbound_port", "outbound_adapter">>,
     <<"inbound_port", "application", "application">>,
     <<"unknown", "application", "domain">>}

FlowGraphComponents ==
    {<<Component("c1", "C1", ls[1]), Component("c2", "C2", ls[2]),
       Component("c3", "C3", ls[3])>> : ls \in FlowLayerings}

FlowIds == {"c1", "c2", "c3", DanglingId}

Depths == -1..MaxDepthBound

InitFlow ==
    /\ WindowIdle
    /\ components \in FlowGraphComponents
    /\ dependencies \in SeqsUpTo(DependenciesOver(FlowIds, Kinds), MaxDeps)
    /\ pc = "loaded"
    /\ violations = <<>>
    /\ summary = NoSummary
    /\ score = NoScore
    /\ start_id = NoStart
    /\ max_depth = 0
    /\ paths = <<>>
    /\ flow = NoFlow
    /\ AnalysesIdle

\* flow = compute_flow_path(graph, start_id, max_depth); paths is its local list
ComputeFlowPath ==
    /\ UNCHANGED window_vars
    /\ pc = "loaded"
    /\ \E s \in FlowIds, d \in Depths :
          /\ start_id' = s
          /\ max_depth' = d
          /\ paths' = compute_flow_paths(components, dependencies, s, d)
          /\ flow' = compute_flow_path(components, dependencies, s, d)
    /\ pc' = "flowed"
    /\ UNCHANGED analysis_vars
    /\ UNCHANGED <<components, dependencies, violations, summary, score>>

\* report = build_use_case_report(graph, entry_component_id)
BuildUseCaseReport ==
    /\ UNCHANGED window_vars
    /\ pc = "loaded"
    /\ \E s \in FlowIds :
          /\ start_id' = s
          /\ flow' = build_use_case_report(components, dependencies, s)
          /\ paths' = IF s \in DOMAIN components_by_id(components)
                      THEN compute_flow_paths(components, dependencies, s, DEFAULT_MAX_DEPTH)
                      ELSE <<>>
    /\ max_depth' = DEFAULT_MAX_DEPTH
    /\ pc' = "reported"
    /\ UNCHANGED analysis_vars
    /\ UNCHANGED <<components, dependencies, violations, summary, score>>

NextFlow == ComputeFlowPath \/ BuildUseCaseReport

SpecFlow == InitFlow /\ [][NextFlow]_vars

(***************************************************************************)
(* score_project over growing violation lists.  The inputs are one         *)
(* violation of the heaviest rule, one warning without extra weight, and   *)
(* one whose severity and rule id are in neither weight table.             *)
(***************************************************************************)
ViolationInputs ==
    LET source == Component("c1", "C1", "domain")
        target == Component("c2", "C2", "inbound_adapter")
        dep == Dependency("c1", "c2", "import")
    IN  {RuleViolation("DOMAIN_DEPENDS_ON_ADAPTER", "error",
                       "Domain must not depend on any adapter", source, target, dep),
         RuleViolation("FORBIDDEN_LAYER_DEPENDENCY", "warning",
                       "Layer rule violation", source, target, dep),
         RuleViolation("CUSTOM_RULE", "critical", "custom", source, target, dep)}

InitScore ==
    /\ WindowIdle
    /\ components = <<>>
    /\ dependencies = <<>>
    /\ pc = "collected"
    /\ violations = <<>>
    /\ summary = NoSummary
    /\ score = NoScore
    /\ start_id = NoStart
    /\ max_depth = 0
    /\ paths = <<>>
    /\ flow = NoFlow
    /\ AnalysesIdle

\* score = score_project(violations)
ScoreProject ==
    /\ UNCHANGED window_vars
    /\ pc = "collected"
    /\ score' = score_project(violations)
    /\ pc' = "scored"
    /\ UNCHANGED analysis_vars
    /\ UNCHANGED <<components, dependencies, violations, summary,
                   start_id, max_depth, paths, flow>>

\* violations.append(v): score still holds the value returned for the list before
AppendViolation ==
    /\ UNCHANGED window_vars
    /\ pc = "scored"
    /\ Len(violations) < MaxViolations
    /\ \E v \in ViolationInputs : violations' = Append(violations, v)
    /\ pc' = "collected"
    /\ UNCHANGED analysis_vars
    /\ UNCHANGED <<components, dependencies, summary, score,
                   start_id, max_depth, paths, flow>>

NextScore == ScoreProject \/ AppendViolation

SpecScore == InitScore /\ [][NextScore]_vars

(***************************************************************************)
(* Python str values read character by character by the analyses are      *)
(* sequences of one-character strings: package names, imports,             *)
(* annotations, and the fields of the CSV export.                          *)
(***************************************************************************)
\* value.split(sep), sep one character
RECURSIVE split(_, _)
split(value, sep) ==
    IF \E i \in DOMAIN value : value[i] = sep
    THEN LET i == CHOOSE k \in DOMAIN value :
                    /\ value[k] = sep
                    /\ \A j \in 1..(k - 1) : value[j] # sep
         IN  <<SubSeq(value, 1, i - 1)>> \o split(SubSeq(value, i + 1, Len(value)), sep)
    ELSE <<value>>

\* sep.join(parts)
RECURSIVE join(_, _)
join(sep, parts) ==
    IF parts = <<>> THEN <<>>
    ELSE IF Len(parts) = 1 THEN parts[1]
    ELSE parts[1] \o sep \o join(sep, Tail(parts))

\* ord(c) of the characters of the explored package names and aggregate groups
ord(c) ==
    CASE c = "." -> 46
      [] c = "a" -> 97
      [] c = "b" -> 98
      [] c = "c" -> 99
      [] c = "d" -> 100
      [] c = "P" -> 80
      [] c = "e" -> 101
      [] c = "m" -> 109
      [] c = "n" -> 110
      [] c = "t" -> 116
      [] c = "y" -> 121

\* a < b on str: the first differing character decides, a proper prefix is smaller
str_less(a, b) ==
    \E i \in 1..Len(b) :
        /\ \A j \in 1..(i - 1) : j <= Len(a) /\ a[j] = b[j]
        /\ \/ i > Len(a)
           \/ ord(a[i]) < ord(b[i])

\* sorted(keys) for a set of distinct str
RECURSIVE sorted_strs(_)
sorted_strs(keys) ==
    IF keys = {} THEN <<>>
    ELSE LET m == CHOOSE k \in keys : \A x \in keys \ {k} : str_less(k, x)
         IN  <<m>> \o sorted_strs(keys \ {m})

(***************************************************************************)
(* analysis/bounded_context.py                                             *)
(***************************************************************************)
\* A component with the package the bounded-context analysis reads.
PackagedComponent(id, name, layer, package) ==
    [id |-> id, name |-> name, layer |-> layer, package |-> package]

BcRelationType == {"upstream", "downstream", "partnership", "shared_kernel",
                   "customer_supplier", "generic_subdomain", "unknown"}

extract_bc_prefix(package) ==
    LET parts == split(package, ".")
    IN  IF Len(parts) >= 3 THEN join(<<".">>, SubSeq(parts, 1, 3))
        ELSE IF Len(parts) >= 2 THEN join(<<".">>, SubSeq(parts, 1, 2))
        ELSE package

\* Variant: the backward count is not read.
infer_relation_type_forward_only(forward_count, backward_count) ==
    IF forward_count > 0 THEN "downstream" ELSE "unknown"

infer_relation_type(forward_count, backward_count) ==
    IF forward_count > 0 /\ backward_count = 0 THEN "downstream"
    ELSE IF forward_count > 0 /\ backward_count > 0 THEN "partnership"
    ELSE "unknown"

\* summary.score / 100.0 is kept in hundredths: the value is hexagon_score / HexagonScale.
HexagonScale == 100

compute_hexagon_score(comps, deps, component_ids) ==
    LET component_set == {component_ids[i] : i \in DOMAIN component_ids}
        sub_components == SelectSeq(comps, LAMBDA c : c.id \in component_set)
        sub_dependencies ==
            SelectSeq(deps, LAMBDA dep : /\ dep.source_id \in component_set
                                         /\ dep.target_id \in component_set)
        r == run_rule_analysis(sub_components, sub_dependencies)
    IN  IF r.summary.total_components # 0 THEN r.summary.score ELSE 0

BoundedContext(idx, prefix, members, hexagon_score) ==
    [id |-> "bc_" \o ToString(idx),
     name |-> IF prefix # <<>> THEN prefix ELSE <<"u", "n", "k", "n", "o", "w", "n">>,
     package_prefixes |-> <<prefix>>,
     component_ids |-> [i \in DOMAIN members |-> members[i].id],
     layers_present |-> {members[i].layer : i \in DOMAIN members},
     is_pure_hexagon |-> hexagon_score * 10 >= 8 * HexagonScale,
     hexagon_score |-> hexagon_score]

\* Variant: a context takes every component whose package starts with its prefix.
build_contexts_members_by_startswith(comps, deps) ==
    LET prefixes == sorted_strs({extract_bc_prefix(comps[i].package) : i \in DOMAIN comps})
    IN  [k \in DOMAIN prefixes |->
            LET members == SelectSeq(comps, LAMBDA c :
                               /\ Len(c.package) >= Len(prefixes[k])
                               /\ SubSeq(c.package, 1, Len(prefixes[k])) = prefixes[k])
            IN  BoundedContext(k - 1, prefixes[k], members,
                    compute_hexagon_score(comps, deps,
                        [i \in DOMAIN members |-> members[i].id]))]

\* contexts: the BoundedContext of every prefix, in the order of sorted(prefix_to_components.items())
build_contexts(comps, deps) ==
    LET prefixes == sorted_strs({extract_bc_prefix(comps[i].package) : i \in DOMAIN comps})
    IN  [k \in DOMAIN prefixes |->
            LET members == SelectSeq(comps, LAMBDA c : extract_bc_prefix(c.package) = prefixes[k])
            IN  BoundedContext(k - 1, prefixes[k], members,
                    compute_hexagon_score(comps, deps,
                        [i \in DOMAIN members |-> members[i].id]))]

\* component_to_bc: a later context of the same component id replaces an earlier one
component_to_bc(contexts) ==
    LET member(k, cid) == \E i \in DOMAIN contexts[k].component_ids :
                              contexts[k].component_ids[i] = cid
    IN  [cid \in UNION {{contexts[k].component_ids[i] : i \in DOMAIN contexts[k].component_ids} :
                            k \in DOMAIN contexts} |->
            contexts[CHOOSE k \in DOMAIN contexts :
                        /\ member(k, cid)
                        /\ \A j \in DOMAIN contexts : member(j, cid) => j <= k].id]

\* Variant: a dependency with an unresolved end is counted for the context of the other end.
RECURSIVE count_edges_unresolved_counted(_, _, _, _)
count_edges_unresolved_counted(c2b, deps, i, edge_count) ==
    IF i > Len(deps) THEN edge_count
    ELSE LET dep == deps[i]
             src_bc == IF dep.source_id \in DOMAIN c2b THEN c2b[dep.source_id] ELSE "bc_0"
             tgt_bc == IF dep.target_id \in DOMAIN c2b THEN c2b[dep.target_id] ELSE "bc_0"
             key == <<src_bc, tgt_bc>>
         IN  IF src_bc = tgt_bc
             THEN count_edges_unresolved_counted(c2b, deps, i + 1, edge_count)
             ELSE IF \E k \in DOMAIN edge_count : edge_count[k].key = key
             THEN count_edges_unresolved_counted(c2b, deps, i + 1,
                      [k \in DOMAIN edge_count |->
                          IF edge_count[k].key = key
                          THEN [key |-> key, count |-> edge_count[k].count + 1]
                          ELSE edge_count[k]])
             ELSE count_edges_unresolved_counted(c2b, deps, i + 1,
                      Append(edge_count, [key |-> key, count |-> 1]))

\* edge_count: the (src_bc, tgt_bc) keys in insertion order, each with its count
RECURSIVE count_edges(_, _, _, _)
count_edges(c2b, deps, i, edge_count) ==
    IF i > Len(deps) THEN edge_count
    ELSE LET dep == deps[i]
         IN  IF \/ dep.source_id \notin DOMAIN c2b
                \/ dep.target_id \notin DOMAIN c2b
                \/ c2b[dep.source_id] = c2b[dep.target_id]
             THEN count_edges(c2b, deps, i + 1, edge_count)
             ELSE LET key == <<c2b[dep.source_id], c2b[dep.target_id]>>
                  IN  IF \E k \in DOMAIN edge_count : edge_count[k].key = key
                      THEN count_edges(c2b, deps, i + 1,
                               [k \in DOMAIN edge_count |->
                                   IF edge_count[k].key = key
                                   THEN [key |-> key, count |-> edge_count[k].count + 1]
                                   ELSE edge_count[k]])
                      ELSE count_edges(c2b, deps, i + 1,
                               Append(edge_count, [key |-> key, count |-> 1]))

\* edge_count.get(key, 0)
edge_count_get(edge_count, key) ==
    IF \E k \in DOMAIN edge_count : edge_count[k].key = key
    THEN edge_count[CHOOSE k \in DOMAIN edge_count : edge_count[k].key = key].count
    ELSE 0

context_by_id(contexts, bc_id) ==
    contexts[CHOOSE k \in DOMAIN contexts : contexts[k].id = bc_id]

BcRelation(contexts, src, tgt, count, reverse_count) ==
    [source_bc_id |-> src,
     target_bc_id |-> tgt,
     relation_type |-> infer_relation_type(count, reverse_count),
     dependency_count |-> count,
     bidirectional |-> reverse_count > 0,
     notes |-> <<context_by_id(contexts, src).name, " -> ",
                 context_by_id(contexts, tgt).name, ": ", count, " deps">>
               \o (IF reverse_count > 0 THEN <<", reverse: ", reverse_count>> ELSE <<>>)]

\* Variant: only the pair itself is added to seen_pairs, not the reversed pair.
RECURSIVE build_relations_reverse_not_seen(_, _, _, _, _)
build_relations_reverse_not_seen(contexts, edge_count, i, relations, seen_pairs) ==
    IF i > Len(edge_count) THEN relations
    ELSE LET src == edge_count[i].key[1]
             tgt == edge_count[i].key[2]
         IN  IF <<src, tgt>> \in seen_pairs
             THEN build_relations_reverse_not_seen(contexts, edge_count, i + 1,
                                                   relations, seen_pairs)
             ELSE build_relations_reverse_not_seen(contexts, edge_count, i + 1,
                      Append(relations,
                             BcRelation(contexts, src, tgt, edge_count[i].count,
                                        edge_count_get(edge_count, <<tgt, src>>))),
                      seen_pairs \cup {<<src, tgt>>})

\* the loop over edge_count.items() that appends the relations
RECURSIVE build_relations(_, _, _, _, _)
build_relations(contexts, edge_count, i, relations, seen_pairs) ==
    IF i > Len(edge_count) THEN relations
    ELSE LET src == edge_count[i].key[1]
             tgt == edge_count[i].key[2]
         IN  IF <<src, tgt>> \in seen_pairs
             THEN build_relations(contexts, edge_count, i + 1, relations, seen_pairs)
             ELSE build_relations(contexts, edge_count, i + 1,
                      Append(relations,
                             BcRelation(contexts, src, tgt, edge_count[i].count,
                                        edge_count_get(edge_count, <<tgt, src>>))),
                      seen_pairs \cup {<<src, tgt>>, <<tgt, src>>})

analyze_bounded_contexts(comps, deps) ==
    LET contexts == build_contexts(comps, deps)
        edge_count == count_edges(component_to_bc(contexts), deps, 1, <<>>)
    IN  [outcome |-> "returned",
         contexts |-> contexts,
         relations |-> build_relations(contexts, edge_count, 1, <<>>, {})]

(***************************************************************************)
(* The bounded-context analysis, the rule analysis and the flow extraction *)
(* of one graph.  They are functions of the graph alone, so one order of   *)
(* the three is explored.  The graphs have three components c1, c2, c3 in  *)
(* three stages of a flow, with packages of zero to four parts, and up to  *)
(* MaxContextDeps import dependencies between different ids among the     *)
(* three and a dangling id.                                                *)
(***************************************************************************)
MaxContextDeps == 2

ContextLayerings ==
    {<<"inbound_port", "application", "domain">>,
     <<"application", "domain", "outbound_adapter">>}

\* The packages "a.b.c" and "b", then "a.b.c.d", "a.b" and "", then "a.b" and "".
ContextPackagings ==
    {<<p1, p2, p3>> :
        p1 \in {<<"a", ".", "b", ".", "c">>, <<"b">>},
        p2 \in {<<"a", ".", "b", ".", "c", ".", "d">>, <<"a", ".", "b">>, <<>>},
        p3 \in {<<"a", ".", "b">>, <<>>}}

ContextGraphComponents ==
    {<<PackagedComponent("c1", "C1", ls[1], ps[1]),
       PackagedComponent("c2", "C2", ls[2], ps[2]),
       PackagedComponent("c3", "C3", ls[3], ps[3])>> :
        ls \in ContextLayerings, ps \in ContextPackagings}

ContextDependencies ==
    {dep \in DependenciesOver(FlowIds, {"import"}) : dep.source_id # dep.target_id}

SelectableIds == {"c1", "c2"}

InitContexts ==
    /\ WindowIdle
    /\ components \in ContextGraphComponents
    /\ dependencies \in SeqsUpTo(ContextDependencies, MaxContextDeps)
    /\ pc = "opened"
    /\ violations = <<>>
    /\ summary = NoSummary
    /\ score = NoScore
    /\ start_id = NoStart
    /\ max_depth = 0
    /\ paths = <<>>
    /\ flow = NoFlow
    /\ AnalysesIdle

\* bc_result = analyze_bounded_contexts(graph)
AnalyzeBoundedContexts ==
    /\ UNCHANGED window_vars
    /\ pc = "opened"
    /\ bc_result' = analyze_bounded_contexts(components, dependencies)
    /\ pc' = "contexts"
    /\ UNCHANGED <<components, dependencies, violations, summary, score,
                   start_id, max_depth, paths, flow>>
    /\ UNCHANGED <<smells, metrics, readiness, event_suggestions, report,
                   planner_input, plan, csv>>

\* violations, summary = run_rule_analysis(graph), which calls analyze_layer_rules(graph)
RunRules ==
    /\ UNCHANGED window_vars
    /\ pc = "contexts"
    /\ LET r == run_rule_analysis(components, dependencies)
       IN  /\ violations' = r.violations
           /\ summary' = r.summary
           /\ score' = r.summary.score
    /\ pc' = "ruled"
    /\ UNCHANGED <<components, dependencies, start_id, max_depth, paths, flow>>
    /\ UNCHANGED analysis_vars

\* flow = compute_flow_path(graph, component_id), max_depth left at its default
SelectComponentFlow ==
    /\ UNCHANGED window_vars
    /\ pc = "ruled"
    /\ \E s \in SelectableIds :
          /\ start_id' = s
          /\ paths' = compute_flow_paths(components, dependencies, s, DEFAULT_MAX_DEPTH)
          /\ flow' = compute_flow_path(components, dependencies, s, DEFAULT_MAX_DEPTH)
    /\ max_depth' = DEFAULT_MAX_DEPTH
    /\ pc' = "selected"
    /\ UNCHANGED <<components, dependencies, violations, summary, score>>
    /\ UNCHANGED analysis_vars

NextContexts == AnalyzeBoundedContexts \/ RunRules \/ SelectComponentFlow

SpecContexts == InitContexts /\ [][NextContexts]_vars

(***************************************************************************)
(* analysis/smells.py: detect_repository_leaks                             *)
(***************************************************************************)
ascii_uppercase == <<"A", "B", "C", "D", "E", "F", "G", "H", "I", "J", "K", "L", "M",
                     "N", "O", "P", "Q", "R", "S", "T", "U", "V", "W", "X", "Y", "Z">>
ascii_lowercase == <<"a", "b", "c", "d", "e", "f", "g", "h", "i", "j", "k", "l", "m",
                     "n", "o", "p", "q", "r", "s", "t", "u", "v", "w", "x", "y", "z">>

\* value.lower()
lower(value) ==
    [i \in DOMAIN value |->
        IF \E k \in DOMAIN ascii_uppercase : ascii_uppercase[k] = value[i]
        THEN ascii_lowercase[CHOOSE k \in DOMAIN ascii_uppercase :
                                ascii_uppercase[k] = value[i]]
        ELSE value[i]]

\* pattern in value
contains(pattern, value) ==
    \E i \in 0..(Len(value) - Len(pattern)) :
        SubSeq(value, i + 1, i + Len(pattern)) = pattern

\* A component with the annotations and imports the smell detectors read.
ScannedComponent(id, name, layer, annotations, imports) ==
    [id |-> id, name |-> name, layer |-> layer,
     annotations |-> annotations, imports |-> imports]

repo_patterns ==
    <<<<"j", "a", "v", "a", "x", ".", "p", "e", "r", "s", "i", "s", "t", "e", "n", "c", "e">>,
      <<"j", "a", "k", "a", "r", "t", "a", ".", "p", "e", "r", "s", "i", "s", "t", "e", "n", "c", "e">>,
      <<"o", "r", "g", ".", "s", "p", "r", "i", "n", "g", "f", "r", "a", "m", "e", "w", "o", "r", "k", ".", "d", "a", "t", "a", ".", "j", "p", "a">>,
      <<"e", "n", "t", "i", "t", "y", "m", "a", "n", "a", "g", "e", "r">>,
      <<"j", "p", "a", "r", "e", "p", "o", "s", "i", "t", "o", "r", "y">>,
      <<"h", "i", "b", "e", "r", "n", "a", "t", "e">>>>

\* any(any(pattern in value for pattern in repo_patterns)
\*     for value in imports_lower + annotations_lower)
has_repo_import(comp) ==
    LET imports_lower == [i \in DOMAIN comp.imports |-> lower(comp.imports[i])]
        annotations_lower == [i \in DOMAIN comp.annotations |-> lower(comp.annotations[i])]
        values == imports_lower \o annotations_lower
    IN  \E v \in DOMAIN values :
            \E p \in DOMAIN repo_patterns : contains(repo_patterns[p], values[v])

ComponentSmell(smell_type, severity, comp, description, hints) ==
    [smell_type |-> smell_type,
     severity |-> severity,
     component_id |-> comp.id,
     component_name |-> comp.name,
     layer |-> comp.layer,
     description |-> description,
     hints |-> hints,
     metrics |-> [repo_imports |-> 1]]

\* the smells the loop body appends for comp
repository_leaks_of(comp) ==
    (IF comp.layer = "domain" /\ has_repo_import(comp)
     THEN <<ComponentSmell("repository_leak", "warning", comp,
                <<"Domain component '", comp.name, "' imports persistence/ORM APIs. ",
                  "Domain layer should not depend on repository/ORM details.">>,
                <<"Move persistence annotations and ORM-specific logic to outbound adapters.",
                  "Keep domain entities as pure as possible.">>)>>
     ELSE <<>>)
    \o
    (IF comp.layer \in {"application", "inbound_adapter"} /\ has_repo_import(comp)
     THEN <<ComponentSmell("repository_leak", "info", comp,
                <<"Component '", comp.name, "' uses repository/ORM-specific APIs directly. ",
                  "Consider wrapping them behind ports or repository interfaces.">>,
                <<"Introduce an outbound port or repository interface in the domain/application layer.",
                  "Let outbound adapters handle ORM-specific code.">>)>>
     ELSE <<>>)

detect_repository_leaks(comps) ==
    concat_all([i \in DOMAIN comps |-> repository_leaks_of(comps[i])])

(***************************************************************************)
(* Inputs of the repository-leak detector: two components of every layer   *)
(* string, each with no import, an import without a persistence marker, or *)
(* an import with one (in lower or mixed case), and with no annotation, an *)
(* annotation without a marker or one with a marker in mixed case.         *)
(***************************************************************************)
\* "java.util.List", "javax.persistence.Id", "org.Hibernate"
ImportLists ==
    {<<>>,
     <<<<"j", "a", "v", "a", ".", "u", "t", "i", "l", ".", "L", "i", "s", "t">>>>,
     <<<<"j", "a", "v", "a", "x", ".", "p", "e", "r", "s", "i", "s", "t", "e", "n", "c", "e", ".", "I", "d">>>>,
     <<<<"o", "r", "g", ".", "H", "i", "b", "e", "r", "n", "a", "t", "e">>>>}

\* "Service", "JpaRepository"
AnnotationLists ==
    {<<>>,
     <<<<"S", "e", "r", "v", "i", "c", "e">>>>,
     <<<<"J", "p", "a", "R", "e", "p", "o", "s", "i", "t", "o", "r", "y">>>>}

SmellGraphComponents ==
    {<<ScannedComponent("c1", "C1", l1, a1, i1), ScannedComponent("c2", "C2", l2, a2, i2)>> :
        l1 \in LayerStrings, l2 \in {"domain", "application", "outbound_adapter"},
        a1 \in AnnotationLists, a2 \in AnnotationLists,
        i1 \in ImportLists, i2 \in ImportLists}

InitSmells ==
    /\ WindowIdle
    /\ components \in SmellGraphComponents
    /\ dependencies = <<>>
    /\ pc = "scanned"
    /\ violations = <<>>
    /\ summary = NoSummary
    /\ score = NoScore
    /\ start_id = NoStart
    /\ max_depth = 0
    /\ paths = <<>>
    /\ flow = NoFlow
    /\ AnalysesIdle

\* smells = detect_repository_leaks(graph)
DetectRepositoryLeaks ==
    /\ UNCHANGED window_vars
    /\ pc = "scanned"
    /\ smells' = detect_repository_leaks(components)
    /\ pc' = "leaks"
    /\ UNCHANGED <<components, dependencies, violations, summary, score,
                   start_id, max_depth, paths, flow>>
    /\ UNCHANGED <<bc_result, metrics, readiness, event_suggestions, report,
                   planner_input, plan, csv>>

NextSmells == DetectRepositoryLeaks

SpecSmells == InitSmells /\ [][NextSmells]_vars

(***************************************************************************)
(* analysis/event_readiness.py                                             *)
(*                                                                         *)
(* The float approximate_coupling_score is kept as an exact fraction: the  *)
(* field holds the numerator of a fraction over CouplingScale.             *)
(***************************************************************************)
CouplingScale == 1200

Min(a, b) == IF a <= b THEN a ELSE b
Max(a, b) == IF a >= b THEN a ELSE b

\* round(num / den) of Python 3: to the nearest integer, a tie to the even one (num >= 0, den > 0)
round(num, den) ==
    LET q == num \div den
        r == num % den
    IN  IF 2 * r > den \/ (2 * r = den /\ q % 2 = 1) THEN q + 1 ELSE q

\* min(path_length / 8.0, 1.0) * 0.3 + min(num_external_systems / 3.0, 1.0) * 0.3
\*   + min(num_bounded_contexts / 3.0, 1.0) * 0.2
\*   + min(num_cross_aggregate_updates / 2.0, 1.0) * 0.2, at most 1.0
approximate_coupling(path_length, num_external_systems, num_bounded_contexts, num_cross_aggregate_updates) ==
    Min(CouplingScale,
        (Min(path_length * (CouplingScale \div 8), CouplingScale) * 3) \div 10
        + (Min(num_external_systems * (CouplingScale \div 3), CouplingScale) * 3) \div 10
        + (Min(num_bounded_contexts * (CouplingScale \div 3), CouplingScale) * 2) \div 10
        + (Min(num_cross_aggregate_updates * (CouplingScale \div 2), CouplingScale) * 2) \div 10)

\* Variant: the outbound ports of the path are counted as external systems too.
UseCaseEventReadinessMetrics_ports_external(use_case_id, use_case_name, entry_layer, path_length, num_external_systems, num_outbound_ports, num_domain_entities, num_aggregates_touched, num_bounded_contexts, has_compensation, sync_chain_depth, violations_on_path) ==
    LET num_cross_aggregate_updates == IF num_aggregates_touched > 1 THEN 1 ELSE 0
    IN  [use_case_id |-> use_case_id,
         use_case_name |-> use_case_name,
         entry_layer |-> entry_layer,
         path_length |-> path_length,
         num_sync_calls |-> path_length,
         num_external_systems |-> num_external_systems + num_outbound_ports,
         num_outbound_ports |-> num_outbound_ports,
         num_domain_entities_touched |-> num_domain_entities,
         num_aggregates_touched |-> num_aggregates_touched,
         num_cross_aggregate_updates |-> num_cross_aggregate_updates,
         num_bounded_contexts |-> num_bounded_contexts,
         has_compensation_logic_hint |-> has_compensation,
         sync_chain_depth |-> sync_chain_depth,
         rule_violations_on_path |-> violations_on_path,
         approximate_coupling_score |->
             approximate_coupling(path_length, num_external_systems,
                                  num_bounded_contexts, num_cross_aggregate_updates)]

UseCaseEventReadinessMetrics(use_case_id, use_case_name, entry_layer, path_length, num_external_systems, num_outbound_ports, num_domain_entities, num_aggregates_touched, num_bounded_contexts, has_compensation, sync_chain_depth, violations_on_path) ==
    LET num_cross_aggregate_updates == IF num_aggregates_touched > 1 THEN 1 ELSE 0
    IN  [use_case_id |-> use_case_id,
         use_case_name |-> use_case_name,
         entry_layer |-> entry_layer,
         path_length |-> path_length,
         num_sync_calls |-> path_length,
         num_external_systems |-> num_external_systems,
         num_outbound_ports |-> num_outbound_ports,
         num_domain_entities_touched |-> num_domain_entities,
         num_aggregates_touched |-> num_aggregates_touched,
         num_cross_aggregate_updates |-> num_cross_aggregate_updates,
         num_bounded_contexts |-> num_bounded_contexts,
         has_compensation_logic_hint |-> has_compensation,
         sync_chain_depth |-> sync_chain_depth,
         rule_violations_on_path |-> violations_on_path,
         approximate_coupling_score |->
             approximate_coupling(path_length, num_external_systems,
                                  num_bounded_contexts, num_cross_aggregate_updates)]

\* the score before score = max(0, min(100, score))
readiness_points(m) ==
    (IF m.path_length >= 4 THEN 10 ELSE 0)
    + (IF m.num_external_systems >= 2 THEN 20 ELSE 0)
    + (IF m.num_outbound_ports >= 2 THEN 10 ELSE 0)
    + (IF m.num_bounded_contexts >= 2 THEN 20 ELSE 0)
    + (IF m.num_cross_aggregate_updates >= 1 THEN 15 ELSE 0)
    + (IF m.has_compensation_logic_hint THEN 10 ELSE 0)
    + round(m.approximate_coupling_score * 25, CouplingScale)
    - (IF m.rule_violations_on_path = 0 THEN 10 ELSE 0)

readiness_level(s) ==
    IF s >= 70 THEN "high" ELSE IF s >= 40 THEN "medium" ELSE "low"

UseCaseEventReadinessScore(m, s) ==
    [use_case_id |-> m.use_case_id,
     score |-> s,
     level |-> readiness_level(s),
     \* coupling is printed with two decimals: the hundredths are kept
     summary |-> <<"Length=", m.path_length, ", externals=", m.num_external_systems,
                   ", aggregates=", m.num_aggregates_touched,
                   ", BCs=", m.num_bounded_contexts,
                   ", coupling=", round(m.approximate_coupling_score * 100, CouplingScale)>>]

\* Variant: the score is not brought into 0..100.
score_use_case_event_readiness_unclamped(m) ==
    UseCaseEventReadinessScore(m, readiness_points(m))

score_use_case_event_readiness(m) ==
    UseCaseEventReadinessScore(m, Max(0, Min(100, readiness_points(m))))

UseCaseEventRefactoringSuggestion(use_case_id, suggestion_type, title, description, suggested_event_names, important_components) ==
    [use_case_id |-> use_case_id,
     suggestion_type |-> suggestion_type,
     title |-> title,
     description |-> description,
     suggested_event_names |-> suggested_event_names,
     important_components |-> important_components]

\* [c.id for c in cs[:n]]
first_ids(cs, n) == [i \in 1..Min(n, Len(cs)) |-> cs[i].id]

\* The fixed Korean sentences of a description are written as a tag, followed by
\* the names the description interpolates.
suggest_event_refactorings_for_use_case(m, s, path) ==
    LET domain_entities == SelectSeq(path, LAMBDA c : c.layer = "domain")
        outbound == SelectSeq(path, LAMBDA c : c.layer = "outbound_adapter")
        domain_name == IF domain_entities # <<>> THEN domain_entities[1].name
                       ELSE "DomainEntity"
        event_name == domain_name \o "Changed"
        suggestions ==
            (IF m.num_domain_entities_touched # 0 /\ m.num_external_systems >= 1
             THEN <<UseCaseEventRefactoringSuggestion(m.use_case_id,
                        "introduce_domain_event",
                        "Introduce domain event for " \o domain_name,
                        <<"description:introduce_domain_event", domain_name, event_name>>,
                        <<event_name, m.use_case_name \o "Completed">>,
                        first_ids(domain_entities, 2) \o first_ids(outbound, 2))>>
             ELSE <<>>)
            \o
            (IF m.num_external_systems >= 2 /\ m.num_bounded_contexts >= 2
             THEN <<UseCaseEventRefactoringSuggestion(m.use_case_id,
                        "introduce_integration_event",
                        "Introduce integration events across bounded contexts",
                        <<"description:introduce_integration_event">>,
                        <<m.use_case_name \o "Integrated">>,
                        first_ids(outbound, 3))>>
             ELSE <<>>)
            \o
            (IF /\ m.num_external_systems >= 2
                /\ m.num_cross_aggregate_updates >= 1
                /\ (m.has_compensation_logic_hint \/ s.score >= 80)
             THEN <<UseCaseEventRefactoringSuggestion(m.use_case_id,
                        "introduce_saga",
                        "Introduce Saga / Process Manager",
                        <<"description:introduce_saga">>,
                        <<m.use_case_name \o "Started", m.use_case_name \o "Completed",
                          m.use_case_name \o "Failed">>,
                        first_ids(outbound, 4))>>
             ELSE <<>>)
            \o
            (IF m.path_length >= 8 /\ m.num_external_systems >= 2
             THEN <<UseCaseEventRefactoringSuggestion(m.use_case_id,
                        "split_use_case",
                        "Split use case into commands + event handlers",
                        <<"description:split_use_case">>,
                        <<m.use_case_name \o "Split">>,
                        first_ids(path, 4))>>
             ELSE <<>>)
    IN  SubSeq(suggestions, 1, Min(3, Len(suggestions)))

(***************************************************************************)
(* analysis/use_case_report.py: the summaries and the refactoring          *)
(* suggestions of a use-case report                                        *)
(***************************************************************************)
\* score, metrics and suggestions are the entries of use_case_id in the three
\* maps of the readiness result; analyzed tells whether the maps have them.
build_event_summary(analyzed, s, m, suggestions) ==
    IF analyzed
    THEN [readiness_score |-> s.score,
          readiness_level |-> s.level,
          sync_coupling_strength |-> m.approximate_coupling_score,
          main_suggestions |-> suggestions]
    ELSE [readiness_score |-> 0,
          readiness_level |-> "low",
          sync_coupling_strength |-> 0,
          main_suggestions |-> <<>>]

RefactoringSuggestion(id, category, title, description, related_components) ==
    [id |-> id, category |-> category, title |-> title,
     description |-> description, related_components |-> related_components]

\* [sm.component_id for sm in ddd_summary.smells if sm.smell_type == smell_type]
smell_targets(ddd_summary, smell_type) ==
    LET found == SelectSeq(ddd_summary.smells, LAMBDA sm : sm.smell_type = smell_type)
    IN  [i \in DOMAIN found |-> found[i].component_id]

\* The fixed Korean title and description of a template are written as a tag.
\* the suggestions of the three tests on ddd_summary
ddd_suggestions(use_case_id, ddd_summary) ==
    (IF ddd_summary.has_anemic_domain
     THEN <<RefactoringSuggestion(use_case_id \o "_anemic_domain", "ddd",
                "title:anemic_domain", "description:anemic_domain",
                smell_targets(ddd_summary, "anemic_domain"))>>
     ELSE <<>>)
    \o
    (IF ddd_summary.has_god_service
     THEN <<RefactoringSuggestion(use_case_id \o "_god_service", "smell",
                "title:god_service", "description:god_service",
                smell_targets(ddd_summary, "god_service"))>>
     ELSE <<>>)
    \o
    (IF ddd_summary.has_cross_aggregate
     THEN <<RefactoringSuggestion(use_case_id \o "_cross_aggregate", "ddd",
                "title:cross_aggregate", "description:cross_aggregate",
                smell_targets(ddd_summary, "cross_aggregate_coupling"))>>
     ELSE <<>>)

\* the loop over event_summary.main_suggestions
forwarded_suggestions(use_case_id, event_summary) ==
    [i \in DOMAIN event_summary.main_suggestions |->
        RefactoringSuggestion(
            use_case_id \o "_" \o event_summary.main_suggestions[i].suggestion_type,
            "event",
            event_summary.main_suggestions[i].title,
            event_summary.main_suggestions[i].description,
            event_summary.main_suggestions[i].important_components)]

cross_bc_suggestions(use_case_id, flow_steps, bc_summary) ==
    IF bc_summary.has_cross_bc_flow
    THEN <<RefactoringSuggestion(use_case_id \o "_cross_bc", "bc",
               "title:cross_bc", "description:cross_bc",
               [i \in DOMAIN flow_steps |-> flow_steps[i].component_id])>>
    ELSE <<>>

\* Variant: the readiness suggestions are forwarded whatever the level.
build_refactoring_suggestions_always_forwarded(use_case_id, flow_steps, ddd_summary, event_summary, bc_summary) ==
    ddd_suggestions(use_case_id, ddd_summary)
    \o forwarded_suggestions(use_case_id, event_summary)
    \o cross_bc_suggestions(use_case_id, flow_steps, bc_summary)

build_refactoring_suggestions(use_case_id, flow_steps, ddd_summary, event_summary, bc_summary) ==
    ddd_suggestions(use_case_id, ddd_summary)
    \o (IF event_summary.readiness_level \in {"medium", "high"}
        THEN forwarded_suggestions(use_case_id, event_summary)
        ELSE <<>>)
    \o cross_bc_suggestions(use_case_id, flow_steps, bc_summary)

(***************************************************************************)
(* Inputs of the readiness scoring and of the report: every metrics record *)
(* of a path of up to MaxPathLength calls with up to MaxExternalSystems    *)
(* outbound adapters, MaxOutboundPorts outbound ports, MaxAggregates       *)
(* aggregates and MaxBoundedContexts package prefixes, with and without a  *)
(* compensation hint, a domain entity and a rule violation; a path of two  *)
(* or four components; then every combination of the three DDD smells and  *)
(* of the cross-context flag.                                              *)
(***************************************************************************)
MaxPathLength == 8
MaxExternalSystems == 2
MaxOutboundPorts == 2
MaxAggregates == 2
MaxBoundedContexts == 2

MetricsInputs ==
    {UseCaseEventReadinessMetrics("c1", "PlaceOrder", "application", path_length,
                                  num_external_systems, num_outbound_ports,
                                  num_domain_entities, num_aggregates_touched,
                                  num_bounded_contexts, has_compensation,
                                  0, violations_on_path) :
        path_length \in {0, 3, 4, MaxPathLength},
        num_external_systems \in 0..MaxExternalSystems,
        num_outbound_ports \in {0, MaxOutboundPorts},
        num_domain_entities \in {0, 1},
        num_aggregates_touched \in {0, MaxAggregates},
        num_bounded_contexts \in {1, MaxBoundedContexts},
        has_compensation \in BOOLEAN,
        violations_on_path \in {0, 1}}

ReadinessPaths ==
    {<<Component("c1", "PlaceOrder", "application"),
       Component("c2", "Order", "domain")>>,
     <<Component("c1", "PlaceOrder", "application"),
       Component("c3", "OrderStore", "outbound_port"),
       Component("c4", "JpaOrderStore", "outbound_adapter"),
       Component("c5", "MailSender", "outbound_adapter")>>}

\* has_* = any(sm.smell_type == ... for sm in flow_smells)
DddEvaluationSummary(smell_types) ==
    [smells |-> [i \in DOMAIN smell_types |->
                    [smell_type |-> smell_types[i], component_id |-> "c1"]],
     has_anemic_domain |-> \E i \in DOMAIN smell_types : smell_types[i] = "anemic_domain",
     has_god_service |-> \E i \in DOMAIN smell_types : smell_types[i] = "god_service",
     has_cross_aggregate |->
         \E i \in DOMAIN smell_types : smell_types[i] = "cross_aggregate_coupling"]

DddSummaries ==
    {DddEvaluationSummary(ts) :
        ts \in {<<>>, <<"anemic_domain">>, <<"god_service">>,
                <<"cross_aggregate_coupling">>,
                <<"anemic_domain", "god_service", "cross_aggregate_coupling">>,
                <<"god_service", "repository_leak", "god_service">>}}

\* UseCaseFlowStep of every component of the path
build_flow_steps(path) ==
    [i \in DOMAIN path |->
        [index |-> i - 1, component_id |-> path[i].id,
         component_name |-> path[i].name, layer |-> path[i].layer]]

InitReadiness ==
    /\ WindowIdle
    /\ components = <<>>
    /\ dependencies = <<>>
    /\ pc = "measured"
    /\ violations = <<>>
    /\ summary = NoSummary
    /\ score = NoScore
    /\ start_id = NoStart
    /\ max_depth = 0
    /\ paths = <<>>
    /\ flow \in {FlowResult(path, <<>>) : path \in ReadinessPaths}
    /\ bc_result = NoResult
    /\ smells = <<>>
    /\ metrics \in MetricsInputs
    /\ readiness = NoResult
    /\ event_suggestions = <<>>
    /\ report = NoResult
    /\ planner_input = NoResult
    /\ plan = <<>>
    /\ csv = <<>>

\* score = score_use_case_event_readiness(metrics)
ScoreUseCaseEventReadiness ==
    /\ UNCHANGED window_vars
    /\ pc = "measured"
    /\ readiness' = score_use_case_event_readiness(metrics)
    /\ pc' = "rated"
    /\ UNCHANGED <<components, dependencies, violations, summary, score,
                   start_id, max_depth, paths, flow>>
    /\ UNCHANGED <<bc_result, smells, metrics, event_suggestions, report,
                   planner_input, plan, csv>>

\* suggestions = suggest_event_refactorings_for_use_case(graph, metrics, score, path)
SuggestEventRefactorings ==
    /\ UNCHANGED window_vars
    /\ pc = "rated"
    /\ event_suggestions' =
          suggest_event_refactorings_for_use_case(metrics, readiness, flow.nodes)
    /\ pc' = "advised"
    /\ UNCHANGED <<components, dependencies, violations, summary, score,
                   start_id, max_depth, paths, flow>>
    /\ UNCHANGED <<bc_result, smells, metrics, readiness, report,
                   planner_input, plan, csv>>

\* event_summary = build_event_summary(entry.id, event_readiness), for an entry the
\* readiness result has or has not; then
\* suggestions = build_refactoring_suggestions(entry.id, flow_steps, ddd_summary,
\*                                             event_summary, bc_summary)
BuildRefactoringSuggestions ==
    /\ UNCHANGED window_vars
    /\ pc = "advised"
    /\ \E ddd_summary \in DddSummaries, has_cross_bc_flow \in BOOLEAN, analyzed \in BOOLEAN :
          LET event_summary ==
                  build_event_summary(analyzed, readiness, metrics, event_suggestions)
              bc_summary == [has_cross_bc_flow |-> has_cross_bc_flow]
          IN  report' =
                  [outcome |-> "returned",
                   use_case_id |-> metrics.use_case_id,
                   ddd_summary |-> ddd_summary,
                   event_summary |-> event_summary,
                   bc_summary |-> bc_summary,
                   refactoring_suggestions |->
                       build_refactoring_suggestions(metrics.use_case_id,
                           build_flow_steps(flow.nodes), ddd_summary,
                           event_summary, bc_summary)]
    /\ pc' = "suggested"
    /\ UNCHANGED <<components, dependencies, violations, summary, score,
                   start_id, max_depth, paths, flow>>
    /\ UNCHANGED <<bc_result, smells, metrics, readiness, event_suggestions,
                   planner_input, plan, csv>>

NextReadiness ==
    ScoreUseCaseEventReadiness \/ SuggestEventRefactorings \/ BuildRefactoringSuggestions

SpecReadiness == InitReadiness /\ [][NextReadiness]_vars

(***************************************************************************)
(* analysis/target_architecture.py and analysis/migration_planner.py       *)
(*                                                                         *)
(* A dict is the sequence of its values in insertion order.  A fixed       *)
(* Korean title or description is written as a tag, followed by the        *)
(* values the text interpolates.                                           *)
(***************************************************************************)
matches_package(pattern, package) ==
    LET startswith(prefix) ==
            /\ Len(package) >= Len(prefix)
            /\ SubSeq(package, 1, Len(prefix)) = prefix
    IN  IF pattern = <<>> THEN FALSE
        ELSE IF /\ Len(pattern) >= 2
                /\ SubSeq(pattern, Len(pattern) - 1, Len(pattern)) = <<".", "*">>
        THEN startswith(SubSeq(pattern, 1, Len(pattern) - 2))
        ELSE startswith(pattern)

MigrationItemType ==
    {"move_to_layer", "move_to_bounded_context", "split_service", "extract_domain_logic",
     "introduce_port", "introduce_event", "introduce_saga", "fix_repository_leak",
     "restructure_use_case", "other"}

MigrationItem(id, item_type, priority, title, description, rationale, related_components, related_use_cases, related_bc_ids, tags) ==
    [id |-> id, item_type |-> item_type, priority |-> priority, title |-> title,
     description |-> description, rationale |-> rationale,
     related_components |-> related_components,
     related_use_cases |-> related_use_cases,
     related_bc_ids |-> related_bc_ids, tags |-> tags]

\* self._violations_by_component of ui/main_window.py, the rules_index argument:
\* the entries [component_id, violations] in insertion order
RECURSIVE violations_by_component(_, _, _)
violations_by_component(vs, i, index) ==
    IF i > Len(vs) THEN index
    ELSE LET put(idx, cid) ==
                 IF \E k \in DOMAIN idx : idx[k].component_id = cid
                 THEN [k \in DOMAIN idx |->
                          IF idx[k].component_id = cid
                          THEN [idx[k] EXCEPT !.violations = Append(@, vs[i])]
                          ELSE idx[k]]
                 ELSE Append(idx, [component_id |-> cid, violations |-> <<vs[i]>>])
         IN  violations_by_component(vs, i + 1,
                 put(put(index, vs[i].source_component_id), vs[i].target_component_id))

\* port_item_of is the item of one violation of rules_index, or none; the violations
\* of the rule engine have a source and a target id, so both are related components.
\* rule_id_lower is rule_id.lower() of the three rule ids that yield an item.
generate_layer_level_migration_items(comps, rules_index, smell_list) ==
    LET by_id == components_by_id(comps)
        name_of(cid) == IF cid \in DOMAIN by_id THEN by_id[cid].name ELSE "Component"
        rule_id_lower(rule_id) ==
            CASE rule_id = "DOMAIN_DEPENDS_ON_ADAPTER" -> "domain_depends_on_adapter"
              [] rule_id = "APPLICATION_DEPENDS_ON_ADAPTER" -> "application_depends_on_adapter"
              [] rule_id = "ADAPTER_DIRECTLY_DEPENDS_ON_DOMAIN" ->
                     "adapter_directly_depends_on_domain"
        port_item_of(violation) ==
            IF violation.rule_id \notin {"DOMAIN_DEPENDS_ON_ADAPTER",
                                         "APPLICATION_DEPENDS_ON_ADAPTER",
                                         "ADAPTER_DIRECTLY_DEPENDS_ON_DOMAIN"}
            THEN <<>>
            ELSE <<MigrationItem(
                       violation.rule_id \o "_" \o violation.source_component_id,
                       "introduce_port", "high",
                       <<"title:introduce_port">>,
                       <<name_of(violation.source_component_id), " -> ",
                         name_of(violation.target_component_id),
                         "description:introduce_port">>,
                       <<"rationale:rule", violation.rule_id,
                         " + target guideline mismatch">>,
                       <<violation.source_component_id, violation.target_component_id>>,
                       <<>>, <<>>,
                       <<rule_id_lower(violation.rule_id)>>)>>
        repo_leak_item_of(smell) ==
            IF smell.smell_type # "repository_leak" THEN <<>>
            ELSE <<MigrationItem("repo_leak_" \o smell.component_id,
                       "fix_repository_leak", "medium",
                       <<"title:repo_leak">>,
                       <<smell.component_name, "description:repo_leak">>,
                       <<"Repository leak smell">>,
                       <<smell.component_id>>, <<>>, <<>>, <<"repository_leak">>)>>
    IN  concat_all([k \in DOMAIN rules_index |->
                       concat_all([i \in DOMAIN rules_index[k].violations |->
                           port_item_of(rules_index[k].violations[i])])])
        \o concat_all([i \in DOMAIN smell_list |-> repo_leak_item_of(smell_list[i])])

\* the first blueprint of the name, compared in lower case, in a list of one or none
match_blueprint(name, target_spec) ==
    LET found == SelectSeq(target_spec.use_case_blueprints,
                           LAMBDA blueprint : lower(blueprint.name) = lower(name))
    IN  SubSeq(found, 1, Min(1, Len(found)))

\* use_case_items_of is the items of one report; has_saga is "saga" in suggestion_type,
\* for the four types the readiness analysis produces.
generate_use_case_level_migration_items(reports, target_spec) ==
    LET has_saga(suggestion_type) ==
            CASE suggestion_type = "introduce_saga" -> TRUE
              [] suggestion_type \in {"introduce_domain_event", "introduce_integration_event",
                                      "split_use_case"} -> FALSE
        use_case_items_of(rep) ==
            LET step_ids == [i \in DOMAIN rep.flow_steps |-> rep.flow_steps[i].component_id]
                sagas == IF rep.event_summary.readiness_level = "high"
                         THEN SelectSeq(rep.event_summary.main_suggestions,
                                        LAMBDA sg : has_saga(sg.suggestion_type))
                         ELSE <<>>
                blueprint == match_blueprint(rep.use_case_name, target_spec)
            IN  [i \in DOMAIN sagas |->
                    MigrationItem(rep.use_case_id \o "_saga", "introduce_saga", "high",
                        <<"title:saga", rep.use_case_name>>,
                        <<"description:saga">>,
                        <<"High event readiness + saga suggestion">>,
                        sagas[i].important_components,
                        <<rep.use_case_id>>, <<>>, <<"saga", "event">>)]
                \o
                (IF rep.ddd_summary.has_god_service \/ rep.ddd_summary.has_cross_aggregate
                 THEN <<MigrationItem(rep.use_case_id \o "_split_service",
                            "restructure_use_case", "high",
                            <<"title:restructure", rep.use_case_name>>,
                            <<"description:restructure">>,
                            <<"DDD smell detected in flow">>,
                            step_ids, <<rep.use_case_id>>, rep.bc_summary.bc_ids_on_path,
                            <<"god_service", "cross_aggregate">>)>>
                 ELSE <<>>)
                \o
                (IF /\ blueprint # <<>>
                    /\ blueprint[1].expected_events # <<>>
                    /\ rep.event_summary.main_suggestions = <<>>
                 THEN <<MigrationItem(rep.use_case_id \o "_events", "introduce_event",
                            "medium",
                            <<"title:events", rep.use_case_name>>,
                            <<"description:events", blueprint[1].expected_events>>,
                            <<"Target blueprint expected events not present">>,
                            step_ids, <<rep.use_case_id>>, rep.bc_summary.bc_ids_on_path,
                            <<"event">>)>>
                 ELSE <<>>)
    IN  concat_all([k \in DOMAIN reports |-> use_case_items_of(reports[k])])

\* the first target context with a pattern that matches bc.name, in a list of one or none
match_target_bc(bc, target_spec) ==
    LET found == SelectSeq(target_spec.bounded_contexts,
                     LAMBDA target : \E p \in DOMAIN target.package_patterns :
                                         matches_package(target.package_patterns[p], bc.name))
    IN  SubSeq(found, 1, Min(1, Len(found)))

generate_bounded_context_level_migration_items(contexts, target_spec) ==
    LET context_items_of(bc) ==
            LET target_bc == match_target_bc(bc, target_spec)
                missing_layers ==
                    IF target_bc = <<>> THEN <<>>
                    ELSE SelectSeq(target_bc[1].expected_layers,
                                   LAMBDA layer : layer \notin bc.layers_present)
            IN  IF missing_layers # <<>>
                THEN <<MigrationItem(bc.id \o "_missing_layers", "introduce_port", "medium",
                           <<"title:missing_layers", bc.name>>,
                           <<"Target BC missing layers: ", missing_layers>>,
                           <<"Target BC expected layers missing">>,
                           bc.component_ids, <<>>, <<bc.id>>, <<"bounded_context">>)>>
                ELSE <<>>
    IN  concat_all([k \in DOMAIN contexts |-> context_items_of(contexts[k])])

MigrationPhase(id, name, description, items) ==
    [id |-> id, name |-> name, description |-> description, items |-> items]

\* Variant: phase_map is kept between calls, a phase starts with the items the last
\* plan has in it.
group_migration_items_into_phases_kept_phase_map(items) ==
    LET kept(k) == IF plan = <<>> THEN <<>> ELSE plan[Len(plan)].phases[k].items
    IN  <<MigrationPhase("phase_1", "Phase 1 - Rules & Infra Cleanup",
              "Fix rule violations, repo leaks, and layer issues.",
              kept(1) \o SelectSeq(items, LAMBDA item : item.item_type \in
                  {"move_to_layer", "fix_repository_leak", "introduce_port"})),
          MigrationPhase("phase_2", "Phase 2 - Use Case Refactoring",
              "Split services and adjust domain boundaries.",
              kept(2) \o SelectSeq(items, LAMBDA item : item.item_type \in
                  {"split_service", "extract_domain_logic", "restructure_use_case"})),
          MigrationPhase("phase_3", "Phase 3 - Events & BC Optimization",
              "Introduce events/sagas and align bounded contexts.",
              kept(3) \o SelectSeq(items, LAMBDA item : item.item_type \notin
                  {"move_to_layer", "fix_repository_leak", "introduce_port",
                   "split_service", "extract_domain_logic", "restructure_use_case"}))>>

\* Variant: introduce_saga is grouped with the use-case refactorings of phase 2.
group_migration_items_into_phases_saga_in_phase_2(items) ==
    <<MigrationPhase("phase_1", "Phase 1 - Rules & Infra Cleanup",
          "Fix rule violations, repo leaks, and layer issues.",
          SelectSeq(items, LAMBDA item : item.item_type \in
              {"move_to_layer", "fix_repository_leak", "introduce_port"})),
      MigrationPhase("phase_2", "Phase 2 - Use Case Refactoring",
          "Split services and adjust domain boundaries.",
          SelectSeq(items, LAMBDA item : item.item_type \in
              {"split_service", "extract_domain_logic", "restructure_use_case",
               "introduce_saga"})),
      MigrationPhase("phase_3", "Phase 3 - Events & BC Optimization",
          "Introduce events/sagas and align bounded contexts.",
          SelectSeq(items, LAMBDA item : item.item_type \notin
              {"move_to_layer", "fix_repository_leak", "introduce_port",
               "split_service", "extract_domain_logic", "restructure_use_case",
               "introduce_saga"}))>>

group_migration_items_into_phases(items) ==
    <<MigrationPhase("phase_1", "Phase 1 - Rules & Infra Cleanup",
          "Fix rule violations, repo leaks, and layer issues.",
          SelectSeq(items, LAMBDA item : item.item_type \in
              {"move_to_layer", "fix_repository_leak", "introduce_port"})),
      MigrationPhase("phase_2", "Phase 2 - Use Case Refactoring",
          "Split services and adjust domain boundaries.",
          SelectSeq(items, LAMBDA item : item.item_type \in
              {"split_service", "extract_domain_logic", "restructure_use_case"})),
      MigrationPhase("phase_3", "Phase 3 - Events & BC Optimization",
          "Introduce events/sagas and align bounded contexts.",
          SelectSeq(items, LAMBDA item : item.item_type \notin
              {"move_to_layer", "fix_repository_leak", "introduce_port",
               "split_service", "extract_domain_logic", "restructure_use_case"}))>>

MigrationPlan(current_project_name, target_name, phases, all_items) ==
    [current_project_name |-> current_project_name, target_name |-> target_name,
     phases |-> phases, all_items |-> all_items]

\* in is the record of the arguments
build_migration_plan(in) ==
    LET items ==
            generate_layer_level_migration_items(in.current_graph, in.rules_index,
                                                 in.smells_summary.smells)
            \o generate_use_case_level_migration_items(in.use_case_reports, in.target_spec)
            \o generate_bounded_context_level_migration_items(in.bc_result.contexts,
                                                              in.target_spec)
    IN  MigrationPlan("Current Project", in.target_spec.name,
                      group_migration_items_into_phases(items), items)

(***************************************************************************)
(* Inputs of the migration planner.  build_migration_plan runs up to       *)
(* MaxRuns times on the same arguments: a graph of a domain component and  *)
(* an outbound adapter in two bounded contexts, the index of up to         *)
(* MaxPlanViolations violations, a smell list, no, one or two use-case     *)
(* reports and a target with or without a matching blueprint and context.  *)
(* group_migration_items_into_phases is also applied to every list of up   *)
(* to MaxItems items of the ten item types.                                *)
(***************************************************************************)
MaxRuns == 2
MaxPlanViolations == 2
MaxItems == 2

PlanGraphComponents ==
    <<PackagedComponent("c1", "C1", "domain", <<"a", ".", "b">>),
      PackagedComponent("c2", "C2", "outbound_adapter", <<"b">>)>>

\* The arguments of build_migration_plan.  A suggestion is one the readiness analysis
\* makes for the use case Pay.  The targets: no blueprint and no context; a blueprint
\* named pay with expected events and the context pattern "a.*" with an expected layer
\* the context lacks; a blueprint of another name and the pattern "b" with the layer
\* the context has.
PlannerInputs ==
    LET c1 == PlanGraphComponents[1]
        c2 == PlanGraphComponents[2]
        PlanViolations ==
            {RuleViolation("DOMAIN_DEPENDS_ON_ADAPTER", "error",
                           "Domain must not depend on any adapter", c1, c2,
                           Dependency("c1", "c2", "import")),
             RuleViolation("FORBIDDEN_LAYER_DEPENDENCY", "warning",
                           "Layer rule violation", c1, c2, Dependency("c1", "c2", "import")),
             RuleViolation("ADAPTER_DIRECTLY_DEPENDS_ON_DOMAIN", "warning",
                           "Adapters should go through ports", c2, c1,
                           Dependency("c2", "c1", "import"))}
        smell(smell_type, comp) ==
            [smell_type |-> smell_type, component_id |-> comp.id,
             component_name |-> comp.name]
        PlanSmellLists ==
            {<<>>,
             <<smell("repository_leak", c1)>>,
             <<smell("god_service", c1), smell("repository_leak", c2)>>}
        PlanSuggestion(suggestion_type) ==
            UseCaseEventRefactoringSuggestion("c1", suggestion_type,
                "title:" \o suggestion_type, <<"description:" \o suggestion_type>>,
                <<"PayCompleted">>, <<"c2">>)
        PlanReport(use_case_id, use_case_name, level, suggestion_types, has_god_service) ==
            [use_case_id |-> use_case_id,
             use_case_name |-> use_case_name,
             flow_steps |-> build_flow_steps(PlanGraphComponents),
             ddd_summary |-> [has_god_service |-> has_god_service,
                              has_cross_aggregate |-> FALSE],
             event_summary |->
                 [readiness_level |-> level,
                  main_suggestions |->
                      [i \in DOMAIN suggestion_types |-> PlanSuggestion(suggestion_types[i])]],
             bc_summary |-> [bc_ids_on_path |-> <<"bc_0", "bc_1">>]]
        PlanReports ==
            {PlanReport("c1", <<"P", "a", "y">>, lv, types, god) :
                lv \in {"high", "medium"},
                types \in {<<>>, <<"introduce_saga">>,
                           <<"introduce_domain_event", "introduce_saga">>},
                god \in BOOLEAN}
        PlanReportSets ==
            {<<>>} \cup {<<rep>> : rep \in PlanReports}
            \cup {<<PlanReport("c1", <<"P", "a", "y">>, "high", <<>>, FALSE),
                    PlanReport("c2", <<"S", "h", "i", "p">>, "high",
                               <<"introduce_saga">>, TRUE)>>}
        TargetSpecs ==
            {[name |-> "empty", use_case_blueprints |-> <<>>, bounded_contexts |-> <<>>],
             [name |-> "hexagonal",
              use_case_blueprints |->
                  <<[name |-> <<"p", "a", "y">>, expected_events |-> <<"PayCompleted">>]>>,
              bounded_contexts |->
                  <<[package_patterns |-> <<<<"a", ".", "*">>>>,
                     expected_layers |-> <<"domain", "application">>]>>],
             [name |-> "other",
              use_case_blueprints |->
                  <<[name |-> <<"p", "a", "d">>, expected_events |-> <<"Paid">>]>>,
              bounded_contexts |->
                  <<[package_patterns |-> <<<<>>, <<"b">>>>,
                     expected_layers |-> <<"outbound_adapter">>]>>]}
    IN  {[current_graph |-> PlanGraphComponents,
          target_spec |-> target_spec,
          rules_index |-> violations_by_component(vs, 1, <<>>),
          smells_summary |-> [smells |-> smell_list],
          bc_result |-> analyze_bounded_contexts(PlanGraphComponents, <<>>),
          use_case_reports |-> reports] :
            target_spec \in TargetSpecs,
            vs \in SeqsUpTo(PlanViolations, MaxPlanViolations),
            smell_list \in PlanSmellLists,
            reports \in PlanReportSets}

ItemInputs ==
    {MigrationItem("item_" \o item_type, item_type, "low", <<"title">>, <<"description">>,
                   <<"rationale">>, <<>>, <<>>, <<>>, <<>>) :
        item_type \in MigrationItemType}

InitPlan ==
    /\ WindowIdle
    /\ components = PlanGraphComponents
    /\ dependencies = <<>>
    /\ violations = <<>>
    /\ summary = NoSummary
    /\ score = NoScore
    /\ start_id = NoStart
    /\ max_depth = 0
    /\ paths = <<>>
    /\ flow = NoFlow
    /\ bc_result = NoResult
    /\ smells = <<>>
    /\ metrics = NoResult
    /\ readiness = NoResult
    /\ event_suggestions = <<>>
    /\ report = NoResult
    /\ plan = <<>>
    /\ csv = <<>>
    /\ \/ /\ pc = "prepared"
          /\ planner_input \in PlannerInputs
       \/ /\ pc = "listed"
          /\ planner_input \in {[items |-> items] : items \in SeqsUpTo(ItemInputs, MaxItems)}

\* plan = build_migration_plan(...), a first run or a run on the arguments of the last
BuildMigrationPlan ==
    /\ UNCHANGED window_vars
    /\ pc \in {"prepared", "planned"}
    /\ Len(plan) < MaxRuns
    /\ plan' = Append(plan, build_migration_plan(planner_input))
    /\ pc' = "planned"
    /\ UNCHANGED <<components, dependencies, violations, summary, score,
                   start_id, max_depth, paths, flow>>
    /\ UNCHANGED <<bc_result, smells, metrics, readiness, event_suggestions,
                   report, planner_input, csv>>

\* phases = group_migration_items_into_phases(items)
GroupMigrationItemsIntoPhases ==
    /\ UNCHANGED window_vars
    /\ pc = "listed"
    /\ plan' = <<MigrationPlan("Current Project", "none",
                     group_migration_items_into_phases(planner_input.items),
                     planner_input.items)>>
    /\ pc' = "grouped"
    /\ UNCHANGED <<components, dependencies, violations, summary, score,
                   start_id, max_depth, paths, flow>>
    /\ UNCHANGED <<bc_result, smells, metrics, readiness, event_suggestions,
                   report, planner_input, csv>>

NextPlan == BuildMigrationPlan \/ GroupMigrationItemsIntoPhases

SpecPlan == InitPlan /\ [][NextPlan]_vars

(***************************************************************************)
(* render_migration_plan_csv.  The texts the renderer reads are sequences  *)
(* of pieces: a comma, a double quote, a newline or a semicolon is a piece *)
(* of its own, every other piece is a run of characters with none of       *)
(* these.  An item id is the rule id, "_" and the component id, which the  *)
(* graph file chooses freely; priority, item type and phase name are the   *)
(* fixed strings of the planner, pieces of their own.                      *)
(***************************************************************************)
MaxCsvItems == 2
MaxTextLen == 2

\* _csv(value)
csv_escape(value) ==
    IF \E i \in DOMAIN value : value[i] \in {",", "\"", "\n"}
    THEN <<"\"">>
         \o concat_all([i \in DOMAIN value |->
                           IF value[i] = "\"" THEN <<"\"", "\"">> ELSE <<value[i]>>])
         \o <<"\"">>
    ELSE value

render_migration_plan_csv(p) ==
    LET header == <<"phase", ",", "item_id", ",", "priority", ",", "type", ",", "title", ",",
                    "description", ",", "rationale", ",", "components", ",", "use_cases",
                    ",", "bounded_contexts", ",", "tags">>
        row(phase, item) ==
            join(<<",">>,
                 <<<<phase.name>>,
                   item.id,
                   <<item.priority>>,
                   <<item.item_type>>,
                   csv_escape(item.title),
                   csv_escape(item.description),
                   csv_escape(item.rationale),
                   csv_escape(join(<<";">>, item.related_components)),
                   csv_escape(join(<<";">>, item.related_use_cases)),
                   csv_escape(join(<<";">>, item.related_bc_ids)),
                   csv_escape(join(<<";">>, item.tags))>>)
        rows == <<header>>
                \o concat_all([k \in DOMAIN p.phases |->
                       [i \in DOMAIN p.phases[k].items |-> row(p.phases[k], p.phases[k].items[i])]])
    IN  join(<<"\n">>, rows)

\* The items of the exported plan: a port item of a violation of the component a or
\* of the component "a,b", or the saga item of the use case a; a title of up to
\* MaxTextLen pieces, one or two related components.
CsvItems ==
    LET ids == {<<<<"DOMAIN_DEPENDS_ON_ADAPTER_a">>, "introduce_port">>,
                <<<<"DOMAIN_DEPENDS_ON_ADAPTER_a", ",", "b">>, "introduce_port">>,
                <<<<"a_saga">>, "introduce_saga">>}
        titles == SeqsUpTo({"t", ",", "\"", "\n"}, MaxTextLen)
        related == {<<<<"a">>>>, <<<<"a">>, <<"a", ",", "b">>>>}
    IN  {MigrationItem(id[1], id[2], "high", title, <<"description">>, <<"rationale">>,
                       related_components, <<>>, <<>>, <<<<"tag">>>>) :
            id \in ids, title \in titles, related_components \in related}

InitCsv ==
    /\ WindowIdle
    /\ components = <<>>
    /\ dependencies = <<>>
    /\ violations = <<>>
    /\ summary = NoSummary
    /\ score = NoScore
    /\ start_id = NoStart
    /\ max_depth = 0
    /\ paths = <<>>
    /\ flow = NoFlow
    /\ bc_result = NoResult
    /\ smells = <<>>
    /\ metrics = NoResult
    /\ readiness = NoResult
    /\ event_suggestions = <<>>
    /\ report = NoResult
    /\ planner_input = NoResult
    /\ csv = <<>>
    /\ pc = "exportable"
    /\ \E items \in SeqsUpTo(CsvItems, MaxCsvItems) :
           plan = <<MigrationPlan("Current Project", "hexagonal",
                        group_migration_items_into_phases(items), items)>>

\* _export_migration_csv: the text written to the chosen file
RenderMigrationPlanCsv ==
    /\ UNCHANGED window_vars
    /\ pc = "exportable"
    /\ csv' = render_migration_plan_csv(plan[Len(plan)])
    /\ pc' = "rendered"
    /\ UNCHANGED <<components, dependencies, violations, summary, score,
                   start_id, max_depth, paths, flow>>
    /\ UNCHANGED <<bc_result, smells, metrics, readiness, event_suggestions,
                   report, planner_input, plan>>

NextCsv == RenderMigrationPlanCsv

SpecCsv == InitCsv /\ [][NextCsv]_vars

(***************************************************************************)
(* analysis/target_architecture.py: load_target_architecture_spec.  The    *)
(* parsed JSON object is a record of its keys; a key the file has holds    *)
(* JsonValue(v), a key it does not have holds MISSING.  d[key] of a        *)
(* missing key raises KeyError, d.get gives the default.  A dict keyed by  *)
(* id is the sequence of its values in insertion order.                    *)
(***************************************************************************)
MISSING == [missing |-> TRUE]

JsonValue(v) == [value |-> v]

\* The graph, the rule engine and the flow extractor have no input and no result.
graph_vars == <<components, dependencies, violations, summary, score,
                start_id, max_depth, paths, flow>>

GraphIdle ==
    /\ components = <<>>
    /\ dependencies = <<>>
    /\ violations = <<>>
    /\ summary = NoSummary
    /\ score = NoScore
    /\ start_id = NoStart
    /\ max_depth = 0
    /\ paths = <<>>
    /\ flow = NoFlow

\* specs[spec.id] = spec
dict_put(specs, spec) ==
    IF \E k \in DOMAIN specs : specs[k].id = spec.id
    THEN [k \in DOMAIN specs |-> IF specs[k].id = spec.id THEN spec ELSE specs[k]]
    ELSE Append(specs, spec)

\* One of the two loops over the entries of a list: entries[i]["id"] raises KeyError
\* when the entry has no "id", before anything is built of it; otherwise the spec
\* built[i] is stored under its id.  The result is the dict, or the error raised.
RECURSIVE load_entries(_, _, _, _)
load_entries(entries, built, i, specs) ==
    IF i > Len(entries) THEN [outcome |-> "returned", specs |-> specs]
    ELSE IF entries[i].id = MISSING THEN [outcome |-> "raised", error |-> "KeyError"]
    ELSE load_entries(entries, built, i + 1, dict_put(specs, built[i]))

load_target_architecture_spec(data, stem) ==
    LET get(entry, default) == IF entry = MISSING THEN default ELSE entry.value
        bc_of(bc) ==
            [id |-> get(bc.id, MISSING),
             name |-> get(bc.name, get(bc.id, MISSING)),
             package_patterns |-> get(bc.packagePatterns, <<>>),
             expected_layers |-> get(bc.expectedLayers, <<>>)]
        uc_of(uc) ==
            [id |-> get(uc.id, MISSING),
             name |-> get(uc.name, get(uc.id, MISSING)),
             expected_events |-> get(uc.expectedEvents, <<>>)]
        bcs == get(data.boundedContexts, <<>>)
        ucs == get(data.useCaseBlueprints, <<>>)
        bc_specs == load_entries(bcs, [k \in DOMAIN bcs |-> bc_of(bcs[k])], 1, <<>>)
        uc_specs == load_entries(ucs, [k \in DOMAIN ucs |-> uc_of(ucs[k])], 1, <<>>)
    IN  IF bc_specs.outcome = "raised" THEN bc_specs
        ELSE IF uc_specs.outcome = "raised" THEN uc_specs
        ELSE [outcome |-> "returned",
              name |-> IF get(data.name, "") = "" THEN stem ELSE data.name.value,
              bounded_contexts |-> bc_specs.specs,
              use_case_blueprints |-> uc_specs.specs]

MaxTargetEntries == 2

\* The target files: up to MaxTargetEntries bounded contexts and blueprints, each key
\* present or not.
TargetFiles ==
    LET bcs == {[id |-> id, name |-> name, packagePatterns |-> patterns,
                 expectedLayers |-> MISSING] :
                   id \in {MISSING, JsonValue("billing"), JsonValue("orders")},
                   name \in {MISSING, JsonValue("Billing")},
                   patterns \in {MISSING, JsonValue(<<<<"a", ".", "*">>>>)}}
        ucs == {[id |-> id, name |-> MISSING, expectedEvents |-> events] :
                   id \in {MISSING, JsonValue("pay")},
                   events \in {MISSING, JsonValue(<<"PayCompleted">>)}}
    IN  {[name |-> name, boundedContexts |-> bc_list, useCaseBlueprints |-> uc_list] :
            name \in {MISSING, JsonValue(""), JsonValue("hexagonal")},
            bc_list \in {MISSING} \cup {JsonValue(l) : l \in SeqsUpTo(bcs, MaxTargetEntries)},
            uc_list \in {MISSING} \cup {JsonValue(l) : l \in SeqsUpTo(ucs, MaxTargetEntries)}}

InitTarget ==
    /\ GraphIdle
    /\ AnalysesIdle
    /\ target_data \in TargetFiles
    /\ loaded_spec = NoResult
    /\ classifier_input = NoResult
    /\ classified = NoResult
    /\ window = NoResult
    /\ pc = "chosen"

\* load_target_architecture_spec(path) of the file named target.json
LoadTargetArchitectureSpec ==
    /\ pc = "chosen"
    /\ loaded_spec' = load_target_architecture_spec(target_data, "target")
    /\ pc' = "loaded"
    /\ UNCHANGED graph_vars
    /\ UNCHANGED analysis_vars
    /\ UNCHANGED <<target_data, classifier_input, classified, window>>

NextTarget == LoadTargetArchitectureSpec

SpecTarget == InitTarget /\ [][NextTarget]_vars

(***************************************************************************)
(* analyzer/classifier.py.  Packages, names, annotations and imports are   *)
(* sequences of characters.                                                *)
(***************************************************************************)
\* value.strip(chars)
strip(value, chars) ==
    LET keep == {i \in DOMAIN value : value[i] \notin chars}
    IN  IF keep = {} THEN <<>>
        ELSE SubSeq(value, CHOOSE i \in keep : \A j \in keep : i <= j,
                           CHOOSE i \in keep : \A j \in keep : j <= i)

\* value.endswith(suffix)
endswith(value, suffix) ==
    /\ Len(value) >= Len(suffix)
    /\ SubSeq(value, Len(value) - Len(suffix) + 1, Len(value)) = suffix

\* ClassificationRules(), the default rule set
ClassificationRules ==
    [domain_annotations |-> {<<"E", "n", "t", "i", "t", "y">>, <<"E", "m", "b", "e", "d", "d", "a", "b", "l", "e">>, <<"V", "a", "l", "u", "e">>},
     application_annotations |-> {<<"S", "e", "r", "v", "i", "c", "e">>, <<"T", "r", "a", "n", "s", "a", "c", "t", "i", "o", "n", "a", "l">>},
     inbound_annotations |-> {<<"R", "e", "s", "t", "C", "o", "n", "t", "r", "o", "l", "l", "e", "r">>, <<"C", "o", "n", "t", "r", "o", "l", "l", "e", "r">>, <<"K", "a", "f", "k", "a", "L", "i", "s", "t", "e", "n", "e", "r">>,
                              <<"R", "a", "b", "b", "i", "t", "L", "i", "s", "t", "e", "n", "e", "r">>},
     outbound_annotations |-> {<<"R", "e", "p", "o", "s", "i", "t", "o", "r", "y">>},
     outbound_import_hints |-> {<<"J", "p", "a", "R", "e", "p", "o", "s", "i", "t", "o", "r", "y">>, <<"C", "r", "u", "d", "R", "e", "p", "o", "s", "i", "t", "o", "r", "y">>},
     outbound_import_suffixes |-> {<<"T", "e", "m", "p", "l", "a", "t", "e">>}]

is_inbound_port(name, package_lower, is_interface) ==
    LET inbound_package_hints == {<<".", "a", "p", "p", "l", "i", "c", "a", "t", "i", "o", "n", ".", "p", "o", "r", "t", ".", "i", "n", ".">>, <<".", "a", "p", "p", "l", "i", "c", "a", "t", "i", "o", "n", ".", "p", "o", "r", "t", "s", ".", "i", "n", ".">>,
                                  <<".", "a", "p", "p", "l", "i", "c", "a", "t", "i", "o", "n", ".", "i", "n", "p", "u", "t", ".">>}
        inbound_suffixes == {<<"u", "s", "e", "c", "a", "s", "e">>, <<"i", "n", "p", "u", "t", "p", "o", "r", "t">>, <<"i", "n", "p", "o", "r", "t">>, <<"c", "o", "m", "m", "a", "n", "d">>, <<"q", "u", "e", "r", "y">>}
        port_score == (IF \E hint \in inbound_package_hints : contains(hint, package_lower)
                  THEN 2 ELSE 0)
                 + (IF \E suffix \in inbound_suffixes : endswith(lower(name), suffix)
                    THEN 1 ELSE 0)
                 + (IF is_interface THEN 1 ELSE 0)
    IN  port_score >= 2

is_outbound_port(name, package_lower, is_interface) ==
    LET outbound_package_hints == {<<".", "a", "p", "p", "l", "i", "c", "a", "t", "i", "o", "n", ".", "p", "o", "r", "t", ".", "o", "u", "t", ".">>, <<".", "a", "p", "p", "l", "i", "c", "a", "t", "i", "o", "n", ".", "p", "o", "r", "t", "s", ".", "o", "u", "t", ".">>,
                                   <<".", "a", "p", "p", "l", "i", "c", "a", "t", "i", "o", "n", ".", "o", "u", "t", "p", "u", "t", ".">>}
        outbound_suffixes == {<<"p", "o", "r", "t">>, <<"o", "u", "t", "p", "u", "t", "p", "o", "r", "t">>, <<"o", "u", "t", "p", "o", "r", "t">>, <<"g", "a", "t", "e", "w", "a", "y">>, <<"c", "l", "i", "e", "n", "t">>}
        port_score == (IF \E hint \in outbound_package_hints : contains(hint, package_lower)
                  THEN 2 ELSE 0)
                 + (IF \E suffix \in outbound_suffixes : endswith(lower(name), suffix)
                    THEN 1 ELSE 0)
                 + (IF is_interface THEN 1 ELSE 0)
    IN  port_score >= 2

\* {a.strip("@").strip() for a in annotations}
annotation_set_of(annotations) ==
    {strip(strip(annotations[i], {"@"}), {" ", "\t", "\n"}) : i \in DOMAIN annotations}

\* Variant: the inbound annotations are tested before the domain signals.
classify_component_inbound_first(package, annotations, imports, name, is_interface, rules) ==
    LET annotation_set == annotation_set_of(annotations)
        package_lower == lower(package)
    IN  IF annotation_set \cap rules.inbound_annotations # {} THEN "inbound_adapter"
        ELSE IF \/ contains(<<".", "d", "o", "m", "a", "i", "n", ".">>, package_lower)
                \/ annotation_set \cap rules.domain_annotations # {}
        THEN "domain"
        ELSE "unknown"

classify_component(package, annotations, imports, name, is_interface, rules) ==
    LET annotation_set == annotation_set_of(annotations)
        package_lower == lower(package)
        name_clean == strip(name, {" ", "\t", "\n"})
        name_lower == lower(name_clean)
        is_application_candidate ==
            \/ contains(<<".", "a", "p", "p", "l", "i", "c", "a", "t", "i", "o", "n", ".">>, package_lower)
            \/ annotation_set \cap rules.application_annotations # {}
            \/ endswith(name_lower, <<"s", "e", "r", "v", "i", "c", "e">>)
    IN  IF \/ contains(<<".", "d", "o", "m", "a", "i", "n", ".">>, package_lower)
           \/ annotation_set \cap rules.domain_annotations # {}
        THEN "domain"
        ELSE IF annotation_set \cap rules.inbound_annotations # {} THEN "inbound_adapter"
        ELSE IF annotation_set \cap rules.outbound_annotations # {} THEN "outbound_adapter"
        ELSE IF \E i \in DOMAIN imports :
                    \/ \E hint \in rules.outbound_import_hints : contains(hint, imports[i])
                    \/ \E suffix \in rules.outbound_import_suffixes :
                           endswith(imports[i], suffix)
        THEN "outbound_adapter"
        ELSE IF is_application_candidate
        THEN IF is_inbound_port(name_clean, package_lower, is_interface) THEN "inbound_port"
             ELSE IF is_outbound_port(name_clean, package_lower, is_interface)
             THEN "outbound_port"
             ELSE "application"
        ELSE "unknown"

MaxAnnotations == 2

\* The classified classes: a package with or without ".domain." or an application
\* package, up to MaxAnnotations annotations of every kind, written with or without
\* "@", an import with or without a persistence hint, a name with or without a port
\* or service suffix, the default rule set or one whose domain annotation is Aggregate.
ClassifierInputs ==
    LET packages == {<<"x", ".", "d", "o", "m", "a", "i", "n", ".", "y">>, <<"x", ".", "D", "o", "m", "a", "i", "n", ".", "y">>, <<"x", ".", "d", "o", "m", "a", "i", "n">>, <<"x", ".", "a", "p", "p", "l", "i", "c", "a", "t", "i", "o", "n", ".", "p", "o", "r", "t", ".", "i", "n", ".", "y">>,
                     <<"x", ".", "a", "p", "p", "l", "i", "c", "a", "t", "i", "o", "n", ".", "p", "o", "r", "t", ".", "o", "u", "t", ".", "y">>, <<"x", ".", "y">>}
        annotation_names == {<<"E", "n", "t", "i", "t", "y">>, <<"@", "V", "a", "l", "u", "e">>, <<"R", "e", "s", "t", "C", "o", "n", "t", "r", "o", "l", "l", "e", "r">>, <<"R", "e", "p", "o", "s", "i", "t", "o", "r", "y">>,
                             <<"S", "e", "r", "v", "i", "c", "e">>, <<"A", "g", "g", "r", "e", "g", "a", "t", "e">>}
        import_lists == {<<>>, <<<<"x", ".", "L", "i", "s", "t">>>>, <<<<"x", ".", "J", "p", "a", "R", "e", "p", "o", "s", "i", "t", "o", "r", "y">>>>,
                         <<<<"x", ".", "L", "i", "s", "t">>, <<"x", ".", "R", "e", "d", "i", "s", "T", "e", "m", "p", "l", "a", "t", "e">>>>}
        names == {<<"P", "a", "y">>, <<"P", "a", "y", "S", "e", "r", "v", "i", "c", "e">>, <<"P", "a", "y", "U", "s", "e", "C", "a", "s", "e">>, <<"P", "a", "y", "G", "a", "t", "e", "w", "a", "y">>}
        rule_sets == {ClassificationRules,
                      [ClassificationRules EXCEPT !.domain_annotations = {<<"A", "g", "g", "r", "e", "g", "a", "t", "e">>}]}
    IN  {[package |-> package, annotations |-> annotations, imports |-> imports,
          name |-> name, is_interface |-> is_interface, rules |-> rules] :
            package \in packages,
            annotations \in SeqsUpTo(annotation_names, MaxAnnotations),
            imports \in import_lists,
            name \in names,
            is_interface \in BOOLEAN,
            rules \in rule_sets}

InitClassifier ==
    /\ GraphIdle
    /\ AnalysesIdle
    /\ target_data = NoResult
    /\ loaded_spec = NoResult
    /\ classifier_input \in ClassifierInputs
    /\ classified = NoResult
    /\ window = NoResult
    /\ pc = "parsed"

\* layer = classify_component(...)
ClassifyComponent ==
    /\ pc = "parsed"
    /\ classified' = classify_component(classifier_input.package,
                         classifier_input.annotations, classifier_input.imports,
                         classifier_input.name, classifier_input.is_interface,
                         classifier_input.rules)
    /\ pc' = "classified"
    /\ UNCHANGED graph_vars
    /\ UNCHANGED analysis_vars
    /\ UNCHANGED <<target_data, loaded_spec, classifier_input, window>>

NextClassifier == ClassifyComponent

SpecClassifier == InitClassifier /\ [][NextClassifier]_vars

(***************************************************************************)
(* analysis/event_readiness.py: analyze_use_case_event_readiness, the      *)
(* metrics of the flow extracted from a use-case entry                     *)
(***************************************************************************)
\* The characters of the explored component names.
str_chars(value) ==
    CASE value = "OrderController" -> <<"O", "r", "d", "e", "r", "C", "o", "n", "t", "r", "o", "l", "l", "e", "r">>
      [] value = "PlaceOrderUseCase" -> <<"P", "l", "a", "c", "e", "O", "r", "d", "e", "r", "U", "s", "e", "C", "a", "s", "e">>
      [] value = "CancelOrderService" -> <<"C", "a", "n", "c", "e", "l", "O", "r", "d", "e", "r", "S", "e", "r", "v", "i", "c", "e">>
      [] value = "Order" -> <<"O", "r", "d", "e", "r">>
      [] value = "OrderRepository" -> <<"O", "r", "d", "e", "r", "R", "e", "p", "o", "s", "i", "t", "o", "r", "y">>
      [] value = "JpaOrderRepository" -> <<"J", "p", "a", "O", "r", "d", "e", "r", "R", "e", "p", "o", "s", "i", "t", "o", "r", "y">>
      [] value = "Payment" -> <<"P", "a", "y", "m", "e", "n", "t">>

\* The body of analyze_use_case_event_readiness after path = flow.nodes;
\* rule_index is the index of ui/main_window.py, or <<>> for None.
measure_use_case(entry, path, rule_index) ==
    LET path_length == Max(0, Len(path) - 1)
        count_layer(layer) == Cardinality({i \in DOMAIN path : path[i].layer = layer})
        name_lower(c) == lower(str_chars(c.name))
        \* _estimate_aggregates: list(dict.fromkeys(aggregates)) has one entry per name
        marked(c) ==
            /\ c.layer = "domain"
            /\ \/ \E token \in {<<"a", "g", "g", "r", "e", "g", "a", "t", "e">>, <<"r", "o", "o", "t">>, <<"e", "n", "t", "i", "t", "y">>} :
                     contains(token, name_lower(c))
               \/ \E token \in {<<"E", "n", "t", "i", "t", "y">>, <<"A", "g", "g", "r", "e", "g", "a", "t", "e", "R", "o", "o", "t">>} :
                     \E k \in DOMAIN c.annotations : c.annotations[k] = token
        marked_nodes == SelectSeq(path, marked)
        named == IF marked_nodes # <<>> THEN marked_nodes
                 ELSE SelectSeq(path, LAMBDA c : c.layer = "domain")
        aggregates == {named[i].name : i \in DOMAIN named}
        \* _package_prefix
        package_prefix(package) ==
            LET parts == split(package, ".")
            IN  IF Len(parts) >= 3 THEN join(<<".">>, SubSeq(parts, 1, 3)) ELSE package
        num_bounded_contexts ==
            Cardinality({package_prefix(path[i].package) :
                            i \in {k \in DOMAIN path : path[k].package # <<>>}})
        has_compensation ==
            \E i \in DOMAIN path :
                \E token \in {<<"c", "a", "n", "c", "e", "l">>, <<"r", "o", "l", "l", "b", "a", "c", "k">>, <<"u", "n", "d", "o">>, <<"c", "o", "m", "p", "e", "n", "s", "a", "t", "e">>} :
                    contains(token, name_lower(path[i]))
        \* _sync_chain_depth: the longest run of domain, outbound_port and
        \* outbound_adapter components
        chained(i, j) ==
            \A k \in i..j :
                path[k].layer \in {"domain", "outbound_port", "outbound_adapter"}
        sync_chain_depth ==
            IF \E i \in DOMAIN path : chained(i, i)
            THEN CHOOSE n \in 1..Len(path) :
                    /\ \E i \in DOMAIN path : i + n - 1 <= Len(path) /\ chained(i, i + n - 1)
                    /\ \A i \in DOMAIN path :
                          i + n <= Len(path) => ~chained(i, i + n)
            ELSE 0
        \* _count_rule_violations: count += len(rule_index.get(component.id, []))
        violations_on_path ==
            Cardinality(UNION {{<<i, e, v>> : v \in DOMAIN rule_index[e].violations} :
                            <<i, e>> \in {p \in (DOMAIN path) \X (DOMAIN rule_index) :
                                rule_index[p[2]].component_id = path[p[1]].id}})
        scored(m, s) ==
            [metrics |-> m,
             score |-> s,
             suggestions |-> suggest_event_refactorings_for_use_case(m, s, path)]
        measured(m) == scored(m, score_use_case_event_readiness(m))
    IN  measured(UseCaseEventReadinessMetrics(entry.id, entry.name, entry.layer,
            path_length, count_layer("outbound_adapter"),
            count_layer("outbound_port"), count_layer("domain"),
            Cardinality(aggregates), num_bounded_contexts, has_compensation,
            sync_chain_depth, violations_on_path))

analyze_use_case_event_readiness(comps, deps, entry, rule_index) ==
    measure_use_case(entry,
        compute_flow_path(comps, deps, entry.id, DEFAULT_MAX_DEPTH).nodes, rule_index)

(***************************************************************************)
(* Inputs of the use-case analysis: graphs of seven components, one of     *)
(* every layer of a flow and a seventh of a second application, domain,    *)
(* outbound_port or outbound_adapter layer; the dependencies are any       *)
(* selection, in order, of the dependencies of a full flow, of a second    *)
(* branch through the seventh component, of a back edge closing a cycle    *)
(* and of a dependency of the domain on an adapter.  The rule index is the *)
(* one of the rule analysis of the graph.                                  *)
(***************************************************************************)
UseCaseGraphComponents ==
    LET comp(id, name, layer, package, annotations) ==
            [id |-> id, name |-> name, layer |-> layer, package |-> package,
             annotations |-> annotations]
    IN  {<<comp("c1", "OrderController", "inbound_adapter", <<"a", ".", "b", ".", "c", ".", "d">>, <<>>),
           comp("c2", "PlaceOrderUseCase", "inbound_port", <<"a", ".", "b", ".", "c">>, <<>>),
           comp("c3", "CancelOrderService", "application", <<"a", ".", "b", ".", "c">>, <<>>),
           comp("c4", "Order", "domain", <<"a", ".", "b">>, <<<<"E", "n", "t", "i", "t", "y">>>>),
           comp("c5", "OrderRepository", "outbound_port", <<"a", ".", "b", ".", "c">>, <<>>),
           comp("c6", "JpaOrderRepository", "outbound_adapter", <<"a", ".", "b", ".", "d">>, <<>>),
           comp("c7", "Payment", layer, <<>>, <<>>)>> :
            layer \in {"application", "domain", "outbound_port", "outbound_adapter"}}

UseCaseDependencies ==
    <<Dependency("c1", "c2", "import"),
      Dependency("c3", "c2", "implements"),
      Dependency("c3", "c4", "import"),
      Dependency("c3", "c5", "import"),
      Dependency("c6", "c5", "implements"),
      Dependency("c3", "c7", "import"),
      Dependency("c7", "c5", "implements"),
      Dependency("c4", "c3", "import"),
      Dependency("c4", "c6", "extends")>>

\* the dependencies at the chosen positions, in the order of deps
selection(deps, chosen) ==
    LET nth(k) == CHOOSE i \in chosen : Cardinality({j \in chosen : j < i}) = k - 1
    IN  [k \in 1..Cardinality(chosen) |-> deps[nth(k)]]

UseCaseIds == {"c1", "c2", "c3", "c4", "c5", "c6", "c7", DanglingId}

DeepDepths == {DEFAULT_MAX_DEPTH, 100}

InitUseCase ==
    /\ WindowIdle
    /\ components \in UseCaseGraphComponents
    /\ dependencies \in {selection(UseCaseDependencies, chosen) :
                            chosen \in SUBSET DOMAIN UseCaseDependencies}
    /\ pc = "loaded"
    /\ violations = analyze_layer_rules(components, dependencies)
    /\ summary = NoSummary
    /\ score = NoScore
    /\ start_id = NoStart
    /\ max_depth = 0
    /\ paths = <<>>
    /\ flow = NoFlow
    /\ AnalysesIdle

\* paths = compute_flow_paths(graph, start_id, max_depth) with a max_depth no
\* path of the graph reaches
ComputeFlowPaths ==
    /\ pc = "loaded"
    /\ \E s \in UseCaseIds, d \in DeepDepths :
          /\ start_id' = s
          /\ max_depth' = d
          /\ paths' = compute_flow_paths(components, dependencies, s, d)
          /\ flow' = compute_flow_path(components, dependencies, s, d)
    /\ pc' = "flowed"
    /\ UNCHANGED <<components, dependencies, violations, summary, score>>
    /\ UNCHANGED analysis_vars
    /\ UNCHANGED window_vars

\* metrics, score, suggestions = analyze_use_case_event_readiness(graph, entry, rule_index)
AnalyzeUseCaseEventReadiness ==
    /\ pc = "loaded"
    /\ \E e \in DOMAIN components :
          LET entry == components[e]
              result == analyze_use_case_event_readiness(components, dependencies, entry,
                            violations_by_component(violations, 1, <<>>))
          IN  /\ start_id' = entry.id
              /\ paths' = compute_flow_paths(components, dependencies, entry.id,
                                             DEFAULT_MAX_DEPTH)
              /\ flow' = compute_flow_path(components, dependencies, entry.id,
                                           DEFAULT_MAX_DEPTH)
              /\ metrics' = result.metrics
              /\ readiness' = result.score
              /\ event_suggestions' = result.suggestions
    /\ max_depth' = DEFAULT_MAX_DEPTH
    /\ pc' = "measured"
    /\ UNCHANGED <<components, dependencies, violations, summary, score>>
    /\ UNCHANGED <<bc_result, smells, report, planner_input, plan, csv>>
    /\ UNCHANGED window_vars

NextUseCase == ComputeFlowPaths \/ AnalyzeUseCaseEventReadiness

SpecUseCase == InitUseCase /\ [][NextUseCase]_vars

(***************************************************************************)
(* analysis/smells.py: the four detectors and analyze_project_smells.      *)
(* component.metrics is a function from the keys it has to their values; a *)
(* ratio count / max(1, population) is the pair of its two integers.       *)
(***************************************************************************)
\* ComponentMetricsProvider._metric: int(value) of the first key component.metrics
\* has with a number, else default; the explored numbers are ints
metric(by_id, component_id, keys, default) ==
    IF component_id \notin DOMAIN by_id THEN default
    ELSE LET present == {k \in DOMAIN keys : keys[k] \in DOMAIN by_id[component_id].metrics}
         IN  IF present = {} THEN default
             ELSE by_id[component_id].metrics[keys[CHOOSE k \in present :
                                                       \A j \in present : k <= j]]

\* _outgoing_components
outgoing_components(by_id, deps, component_id) ==
    LET out == outgoing(deps, component_id)
    IN  concat_all([i \in DOMAIN out |->
            IF out[i].target_id \in DOMAIN by_id THEN <<by_id[out[i].target_id]>>
            ELSE <<>>])

guess_aggregate_group(component) ==
    LET parts == split(component.package, ".")
    IN  IF Len(parts) >= 3 THEN join(<<".">>, SubSeq(parts, 1, 3))
        ELSE IF Len(parts) >= 2 THEN join(<<".">>, SubSeq(parts, 1, 2))
        ELSE IF component.package # <<>> THEN component.package
        ELSE str_chars(component.name)

detect_anemic_domain(comps) ==
    LET by_id == components_by_id(comps)
        smell_of(comp, m_count, f_count, l_count, method_names) ==
            LET is_accessor_only ==
                    /\ method_names # <<>>
                    /\ \A i \in DOMAIN method_names :
                          \/ \E prefix \in {<<"g", "e", "t">>, <<"s", "e", "t">>, <<"i", "s">>, <<"t", "o">>, <<"w", "i", "t", "h">>} :
                                /\ Len(method_names[i]) >= Len(prefix)
                                /\ SubSeq(method_names[i], 1, Len(prefix)) = prefix
                          \/ method_names[i] \in {<<"_", "_", "i", "n", "i", "t", "_", "_">>, <<"_", "_", "s", "t", "r", "_", "_">>}
                conditions_true ==
                    (IF m_count <= 2 /\ f_count >= 3 THEN 1 ELSE 0)
                    + (IF is_accessor_only THEN 1 ELSE 0)
                    + (IF l_count >= 50 /\ m_count <= 3 THEN 1 ELSE 0)
            IN  IF conditions_true >= 2
                THEN <<[ComponentSmell("anemic_domain", "warning", comp,
                            <<"Domain entity '", comp.name, "' has ", m_count,
                              " methods and ", f_count, " fields. ",
                              "Most methods look like accessors. This is likely an Anemic Domain Model.">>,
                            <<"Move business rules/behaviors from application services into this entity.",
                              "Introduce intention-revealing methods that enforce invariants.">>)
                        EXCEPT !.metrics = [method_count |-> m_count,
                                            field_count |-> f_count,
                                            line_count |-> l_count,
                                            conditions_true |-> conditions_true]]>>
                ELSE <<>>
        public_method_names(comp) ==
            IF "public_methods" \in DOMAIN comp.metrics
            THEN comp.metrics["public_methods"] ELSE <<>>
    IN  concat_all([i \in DOMAIN comps |->
            IF comps[i].layer # "domain" THEN <<>>
            ELSE smell_of(comps[i],
                     metric(by_id, comps[i].id, <<"method_count", "methods">>, 0),
                     metric(by_id, comps[i].id, <<"field_count", "fields">>, 0),
                     metric(by_id, comps[i].id, <<"line_count", "lines">>, 0),
                     [k \in DOMAIN public_method_names(by_id[comps[i].id]) |->
                         lower(public_method_names(by_id[comps[i].id])[k])])])

detect_god_service(comps, deps) ==
    LET by_id == components_by_id(comps)
        smell_of(comp, m_count, l_count, targets) ==
            LET dep_ids == {targets[i].id : i \in DOMAIN targets}
                domain_deps == {targets[i].name :
                                   i \in {k \in DOMAIN targets : targets[k].layer = "domain"}}
                conditions_true ==
                    (IF m_count >= 10 /\ l_count >= 200 THEN 1 ELSE 0)
                    + (IF Cardinality(dep_ids) >= 5 THEN 1 ELSE 0)
                    + (IF Cardinality(domain_deps) >= 3 THEN 1 ELSE 0)
            IN  IF conditions_true >= 2
                THEN <<[ComponentSmell("god_service", "warning", comp,
                            <<"Application service '", comp.name,
                              "' is large and highly coupled ", "(methods=", m_count,
                              ", lines=", l_count, ", deps=", Cardinality(dep_ids),
                              ", domain_deps=", Cardinality(domain_deps), "). ",
                              "This looks like a God Service / Transaction Script.">>,
                            <<"Split use cases into separate application services.",
                              "Move domain rules into aggregates or domain services.",
                              "Reduce direct dependencies by introducing ports or domain events.">>)
                        EXCEPT !.metrics = [method_count |-> m_count,
                                            line_count |-> l_count,
                                            dependency_count |-> Cardinality(dep_ids),
                                            domain_dependency_count |-> Cardinality(domain_deps),
                                            conditions_true |-> conditions_true]]>>
                ELSE <<>>
    IN  concat_all([i \in DOMAIN comps |->
            IF comps[i].layer # "application" THEN <<>>
            ELSE smell_of(comps[i],
                     metric(by_id, comps[i].id, <<"method_count", "methods">>, 0),
                     metric(by_id, comps[i].id, <<"line_count", "lines">>, 0),
                     outgoing_components(by_id, deps, comps[i].id))])

detect_cross_aggregate_coupling(comps, deps) ==
    LET by_id == components_by_id(comps)
        smell_of(comp, domain_deps, m_count, l_count) ==
            LET groups == {guess_aggregate_group(domain_deps[i]) : i \in DOMAIN domain_deps}
            IN  IF domain_deps # <<>> /\ Cardinality(groups) >= 2
                THEN <<[ComponentSmell("cross_aggregate_coupling", "warning", comp,
                            <<"Component '", comp.name,
                              "' touches domain entities from multiple aggregate groups: ",
                              join(<<",", " ">>, sorted_strs(groups)),
                              ". This may violate aggregate boundaries.">>,
                            <<"Consider splitting responsibilities by aggregate.",
                              "Introduce domain events or application services per aggregate to decouple them.">>)
                        EXCEPT !.metrics = [aggregate_group_count |-> Cardinality(groups),
                                            domain_dependency_count |-> Len(domain_deps),
                                            method_count |-> m_count,
                                            line_count |-> l_count]]>>
                ELSE <<>>
    IN  concat_all([i \in DOMAIN comps |->
            IF comps[i].layer \notin {"application", "domain"} THEN <<>>
            ELSE smell_of(comps[i],
                     SelectSeq(outgoing_components(by_id, deps, comps[i].id),
                               LAMBDA d : d.layer = "domain"),
                     metric(by_id, comps[i].id, <<"method_count", "methods">>, 0),
                     metric(by_id, comps[i].id, <<"line_count", "lines">>, 0))])

\* ProjectSmellSummary as analyze_project_smells fills it from its list smells
ProjectSmellSummary(comps, found) ==
    LET count_type(smell_type) ==
            Cardinality({i \in DOMAIN found : found[i].smell_type = smell_type})
        count_layers(layers) ==
            Cardinality({i \in DOMAIN comps : comps[i].layer \in layers})
        ratio(count, population) == [count |-> count, population |-> Max(1, population)]
    IN  [smells |-> found,
         smells_by_type |->
            [t \in {found[i].smell_type : i \in DOMAIN found} |-> count_type(t)],
         smells_by_layer |->
            [l \in {found[i].layer : i \in DOMAIN found} |->
                Cardinality({i \in DOMAIN found : found[i].layer = l})],
         anemic_domain_ratio |-> ratio(count_type("anemic_domain"), count_layers({"domain"})),
         god_service_ratio |-> ratio(count_type("god_service"), count_layers({"application"})),
         repository_leak_ratio |-> ratio(count_type("repository_leak"), Len(comps)),
         cross_aggregate_coupling_ratio |->
            ratio(count_type("cross_aggregate_coupling"), count_layers({"application"}))]

analyze_project_smells(comps, deps) ==
    ProjectSmellSummary(comps,
        detect_anemic_domain(comps) \o detect_god_service(comps, deps)
        \o detect_repository_leaks(comps) \o detect_cross_aggregate_coupling(comps, deps))

(***************************************************************************)
(* Inputs of the smell analysis: four components, the first an application *)
(* service or a domain component, the others domain components, in         *)
(* packages of zero to four parts; the first with or without the metrics   *)
(* of a large class, the second with or without the metrics of an          *)
(* accessor-only class and a persistence import; any selection of seven    *)
(* dependencies among them and on a dangling id.                           *)
(***************************************************************************)
ProjectSmellComponents ==
    LET comp(id, name, layer, package, imports, comp_metrics) ==
            [id |-> id, name |-> name, layer |-> layer, package |-> package,
             annotations |-> <<>>, imports |-> imports, metrics |-> comp_metrics]
        none == [k \in {} |-> 0]
        large == [method_count |-> 12, lines |-> 240]
        accessors == [methods |-> 2, field_count |-> 3, line_count |-> 20,
                      public_methods |-> <<<<"g", "e", "t", "I", "d">>, <<"s", "e", "t", "I", "d">>, <<"_", "_", "s", "t", "r", "_", "_">>>>]
    IN  {<<comp("c1", "CancelOrderService", layer, <<"a", ".", "b", ".", "c">>, <<>>, m1),
           comp("c2", "Order", "domain", <<"a", ".", "b", ".", "d">>, p2[1], p2[2]),
           comp("c3", "OrderRepository", "domain", package3, <<>>, none),
           comp("c4", "Payment", "domain", package4, <<>>, none)>> :
            layer \in {"application", "domain"},
            m1 \in {none, large},
            p2 \in {<<<<>>, none>>, <<<<<<"j", "a", "v", "a", "x", ".", "p", "e", "r", "s", "i", "s", "t", "e", "n", "c", "e", ".", "I", "d">>>>, accessors>>},
            package3 \in {<<"a", ".", "b", ".", "d", ".", "c">>, <<"b", ".", "c">>},
            package4 \in {<<>>, <<"a">>}}

ProjectSmellDependencies ==
    <<Dependency("c1", "c2", "import"),
      Dependency("c1", "c3", "import"),
      Dependency("c1", "c4", "import"),
      Dependency("c2", "c1", "import"),
      Dependency("c2", "c3", "import"),
      Dependency("c2", "c4", "import"),
      Dependency("c2", DanglingId, "import")>>

InitProjectSmells ==
    /\ WindowIdle
    /\ components \in ProjectSmellComponents
    /\ dependencies \in {selection(ProjectSmellDependencies, chosen) :
                            chosen \in SUBSET DOMAIN ProjectSmellDependencies}
    /\ pc = "loaded"
    /\ violations = <<>>
    /\ summary = NoSummary
    /\ score = NoScore
    /\ start_id = NoStart
    /\ max_depth = 0
    /\ paths = <<>>
    /\ flow = NoFlow
    /\ AnalysesIdle

\* _run_smell_analysis: self._smell_summary = analyze_project_smells(graph, metrics),
\* kept in smells
AnalyzeProjectSmells ==
    /\ pc = "loaded"
    /\ smells' = analyze_project_smells(components, dependencies)
    /\ pc' = "smelled"
    /\ UNCHANGED graph_vars
    /\ UNCHANGED <<bc_result, metrics, readiness, event_suggestions, report,
                   planner_input, plan, csv>>
    /\ UNCHANGED window_vars

NextProjectSmells == AnalyzeProjectSmells

SpecProjectSmells == InitProjectSmells /\ [][NextProjectSmells]_vars

(***************************************************************************)
(* core/use_case_utils.py and analysis/event_readiness.py:                 *)
(* analyze_project_event_readiness.  The three maps by entry id are the    *)
(* sequences of their values in insertion order; avg_score is the pair of  *)
(* the sum and the number of the scores.                                   *)
(***************************************************************************)
is_use_case_entry(component) ==
    \/ component.layer = "inbound_port"
    \/ /\ component.layer = "inbound_adapter"
       /\ contains(<<"c", "o", "n", "t", "r", "o", "l", "l", "e", "r">>, lower(str_chars(component.name)))

analyze_project_event_readiness(comps, deps, rule_index) ==
    LET summarize(results) ==
            LET scores == [i \in DOMAIN results |-> results[i].score]
                count_level(level) ==
                    Cardinality({i \in DOMAIN scores : scores[i].level = level})
                \* sorted(scores, key=lambda s: s.score, reverse=True): the rank of a
                \* score counts the higher scores and the equal ones before it
                rank(i) ==
                    Cardinality({j \in DOMAIN scores :
                                    \/ scores[j].score > scores[i].score
                                    \/ scores[j].score = scores[i].score /\ j < i}) + 1
                RECURSIVE total(_)
                total(i) == IF i = 0 THEN 0 ELSE scores[i].score + total(i - 1)
            IN  [outcome |-> "returned",
                 per_use_case_metrics |-> [i \in DOMAIN results |-> results[i].metrics],
                 per_use_case_scores |-> scores,
                 per_use_case_suggestions |->
                    [i \in DOMAIN results |-> results[i].suggestions],
                 project_summary |->
                    [total_use_cases |-> Len(results),
                     avg_score |-> IF scores = <<>> THEN <<0, 1>>
                                   ELSE <<total(Len(scores)), Len(scores)>>,
                     high_candidate_count |-> count_level("high"),
                     medium_candidate_count |-> count_level("medium"),
                     low_candidate_count |-> count_level("low"),
                     scores_by_use_case |-> scores,
                     top_candidates |->
                        [k \in 1..Min(5, Len(scores)) |->
                            scores[CHOOSE i \in DOMAIN scores : rank(i) = k]]]]
        analyzed(entries) ==
            summarize([i \in DOMAIN entries |->
                analyze_use_case_event_readiness(comps, deps, entries[i], rule_index)])
    IN  analyzed(SelectSeq(comps, is_use_case_entry))

(***************************************************************************)
(* The five analyses called on one Graph object, in any order and up to    *)
(* MaxCalls times.  The graphs have the seven components of the use-case   *)
(* analysis, with imports and metrics, and none, some or all of its        *)
(* dependencies.                                                           *)
(***************************************************************************)
MaxCalls == 3

\* Variant: _compute_hexagon_score narrows graph.components and graph.dependencies
\* to the members of the context instead of building sub_graph.
graph_after_narrowed(analysis, comps, deps) ==
    IF analysis = "analyze_bounded_contexts" /\ comps # <<>>
    THEN LET prefix == extract_bc_prefix(comps[Len(comps)].package)
             members == {comps[i].id :
                            i \in {k \in DOMAIN comps :
                                      extract_bc_prefix(comps[k].package) = prefix}}
         IN  [components |-> SelectSeq(comps, LAMBDA c : c.id \in members),
              dependencies |->
                 SelectSeq(deps, LAMBDA dep : /\ dep.source_id \in members
                                              /\ dep.target_id \in members)]
    ELSE [components |-> comps, dependencies |-> deps]

\* The Graph object after an analysis has returned.  The analyses iterate
\* graph.components and graph.dependencies, build their own dicts and lists (and
\* _compute_hexagon_score a new Graph), and assign to no field of the graph, of a
\* component or of a dependency.
graph_after(analysis, comps, deps) ==
    [components |-> comps, dependencies |-> deps]

AnalysisGraphs ==
    {[components |-> [i \in DOMAIN cs |-> cs[i] @@ [imports |-> <<>>, metrics |-> <<>>]],
      dependencies |-> selection(UseCaseDependencies, chosen)] :
        cs \in {g \in UseCaseGraphComponents : g[7].layer \in {"domain", "outbound_adapter"}},
        chosen \in {{}, {1, 2, 3, 9}, DOMAIN UseCaseDependencies}}

\* pc is the sequence of the calls made so far
InitAnalyses ==
    /\ WindowIdle
    /\ \E g \in AnalysisGraphs :
          /\ components = g.components
          /\ dependencies = g.dependencies
    /\ pc = <<>>
    /\ violations = <<>>
    /\ summary = NoSummary
    /\ score = NoScore
    /\ start_id = NoStart
    /\ max_depth = 0
    /\ paths = <<>>
    /\ flow = NoFlow
    /\ AnalysesIdle

\* the call is made on the graph, and leaves it as graph_after tells
Called(analysis) ==
    /\ Len(pc) < MaxCalls
    /\ pc' = Append(pc, analysis)
    /\ components' = graph_after(analysis, components, dependencies).components
    /\ dependencies' = graph_after(analysis, components, dependencies).dependencies
    /\ UNCHANGED <<score, report, metrics, event_suggestions, planner_input, plan, csv>>
    /\ UNCHANGED window_vars

\* violations, summary = run_rule_analysis(graph)
CallRunRuleAnalysis ==
    /\ Called("run_rule_analysis")
    /\ violations' = run_rule_analysis(components, dependencies).violations
    /\ summary' = run_rule_analysis(components, dependencies).summary
    /\ UNCHANGED <<start_id, max_depth, paths, flow, bc_result, smells, readiness>>

\* flow = compute_flow_path(graph, start_id)
CallComputeFlowPath ==
    /\ Called("compute_flow_path")
    /\ \E s \in {"c1", "c3"} :
          /\ start_id' = s
          /\ paths' = compute_flow_paths(components, dependencies, s, DEFAULT_MAX_DEPTH)
          /\ flow' = compute_flow_path(components, dependencies, s, DEFAULT_MAX_DEPTH)
    /\ max_depth' = DEFAULT_MAX_DEPTH
    /\ UNCHANGED <<violations, summary, bc_result, smells, readiness>>

\* bc_result = analyze_bounded_contexts(graph)
CallAnalyzeBoundedContexts ==
    /\ Called("analyze_bounded_contexts")
    /\ bc_result' = analyze_bounded_contexts(components, dependencies)
    /\ UNCHANGED <<violations, summary, start_id, max_depth, paths, flow, smells, readiness>>

\* smells = analyze_project_smells(graph, ComponentMetricsProvider(components))
CallAnalyzeProjectSmells ==
    /\ Called("analyze_project_smells")
    /\ smells' = analyze_project_smells(components, dependencies)
    /\ UNCHANGED <<violations, summary, start_id, max_depth, paths, flow, bc_result,
                   readiness>>

\* readiness = analyze_project_event_readiness(graph)
CallAnalyzeProjectEventReadiness ==
    /\ Called("analyze_project_event_readiness")
    /\ readiness' = analyze_project_event_readiness(components, dependencies, <<>>)
    /\ UNCHANGED <<violations, summary, start_id, max_depth, paths, flow, bc_result,
                   smells>>

NextAnalyses ==
    \/ CallRunRuleAnalysis
    \/ CallComputeFlowPath
    \/ CallAnalyzeBoundedContexts
    \/ CallAnalyzeProjectSmells
    \/ CallAnalyzeProjectEventReadiness

SpecAnalyses == InitAnalyses /\ [][NextAnalyses]_vars

(***************************************************************************)
(* ui/main_window.py: the fields of MainWindow that hold the graph and     *)
(* what is derived from it, and the handlers that assign them.  None is    *)
(* NoResult (NoPath for a path).  _use_case_reports and _migration_plan    *)
(* are kept as the arguments build_use_case_reports and                    *)
(* build_migration_plan are called with, and _target_spec as the fact that *)
(* a spec was loaded.                                                      *)
(***************************************************************************)
NoPath == "none"

\* MainWindow.__init__
MainWindow ==
    [_current_graph |-> NoResult,
     project_root |-> NoPath,
     _violations_by_component |-> <<>>,
     _event_readiness |-> NoResult,
     _smell_summary |-> NoResult,
     _bc_analysis |-> NoResult,
     _use_case_reports |-> NoResult,
     _building_reports |-> FALSE,
     _target_spec |-> NoResult,
     _migration_plan |-> NoResult,
     _watch_snapshot |-> "none",
     _watch_root |-> NoPath,
     _watch_in_progress |-> FALSE]

\* `not value` for a field that holds None or an object
falsy(value) == value = NoResult

\* the index _run_rule_check builds from run_rule_analysis(graph)
rules_index_of(graph) ==
    violations_by_component(run_rule_analysis(graph.components, graph.dependencies).violations,
                            1, <<>>)

\* What the analyses return for the graph a handler works on (self._current_graph
\* from its first statement to its last): the steps of the handler, which call
\* the analyses on this graph many times, take the results from this record.
\* The event readiness is taken for the index the window holds at the call,
\* which is {} or the index of the graph.
analyses_of(graph) ==
    [rules_index |-> rules_index_of(graph),
     smell_summary |-> analyze_project_smells(graph.components, graph.dependencies),
     bc_analysis |-> analyze_bounded_contexts(graph.components, graph.dependencies),
     event_readiness |->
        [rule_index \in {<<>>, rules_index_of(graph)} |->
            analyze_project_event_readiness(graph.components, graph.dependencies,
                                            rule_index)]]

RECURSIVE _build_use_case_reports(_, _)

_run_rule_check(self, analysed) ==
    IF falsy(self._current_graph) THEN self
    ELSE _build_use_case_reports(
            [self EXCEPT !._violations_by_component = analysed.rules_index], analysed)

_run_smell_analysis(self, analysed) ==
    IF falsy(self._current_graph) THEN self
    ELSE _build_use_case_reports(
            [self EXCEPT !._smell_summary = analysed.smell_summary], analysed)

_run_bounded_context_analysis(self, analysed) ==
    IF falsy(self._current_graph) THEN self
    ELSE _build_use_case_reports(
            [self EXCEPT !._bc_analysis = analysed.bc_analysis], analysed)

\* if not self._bc_analysis: self._run_bounded_context_analysis()
bc_analysis_if_none(self, analysed) ==
    IF falsy(self._bc_analysis) THEN _run_bounded_context_analysis(self, analysed) ELSE self

\* if not self._event_readiness: self._event_readiness = analyze_project_event_readiness(...)
event_readiness_if_none(self, analysed) ==
    IF falsy(self._event_readiness)
    THEN [self EXCEPT !._event_readiness =
            analysed.event_readiness[self._violations_by_component]]
    ELSE self

\* if not self._smell_summary: self._run_smell_analysis()
smell_summary_if_none(self, analysed) ==
    IF falsy(self._smell_summary) THEN _run_smell_analysis(self, analysed) ELSE self

\* self._use_case_reports = build_use_case_reports(...), unless a result is missing
use_case_reports_built(self) ==
    IF falsy(self._bc_analysis) \/ falsy(self._event_readiness) \/ falsy(self._smell_summary)
    THEN self
    ELSE [self EXCEPT !._use_case_reports =
            [outcome |-> "built",
             graph |-> self._current_graph,
             rules_index |-> self._violations_by_component,
             smells_summary |-> self._smell_summary,
             event_readiness |-> self._event_readiness,
             bc_result |-> self._bc_analysis]]

\* the handlers called while _building_reports is set return from their own call
\* of _build_use_case_reports at once; finally resets the flag
_build_use_case_reports(self, analysed) ==
    IF falsy(self._current_graph) \/ self._building_reports THEN self
    ELSE [use_case_reports_built(
            smell_summary_if_none(
              event_readiness_if_none(
                bc_analysis_if_none([self EXCEPT !._building_reports = TRUE], analysed),
                analysed),
              analysed))
          EXCEPT !._building_reports = FALSE]

\* if not self._use_case_reports: self._build_use_case_reports()
use_case_reports_if_none(self, analysed) ==
    IF falsy(self._use_case_reports) THEN _build_use_case_reports(self, analysed) ELSE self

\* self._migration_plan = build_migration_plan(...), unless a result is missing
migration_plan_built(self) ==
    IF falsy(self._use_case_reports) \/ falsy(self._bc_analysis) \/ falsy(self._smell_summary)
    THEN self
    ELSE [self EXCEPT !._migration_plan =
            [outcome |-> "built",
             current_graph |-> self._current_graph,
             rules_index |-> self._violations_by_component,
             smells_summary |-> self._smell_summary,
             event_readiness |-> self._event_readiness,
             bc_result |-> self._bc_analysis,
             use_case_reports |-> self._use_case_reports]]

_rebuild_migration_plan(self, analysed) ==
    IF falsy(self._current_graph) \/ falsy(self._target_spec) THEN self
    ELSE migration_plan_built(
            bc_analysis_if_none(
              smell_summary_if_none(
                event_readiness_if_none(
                  use_case_reports_if_none(self, analysed),
                  analysed),
                analysed),
              analysed))

\* The target spec is read from the file found, or from ddd_target.json after
\* _generate_default_target_spec has written it from _bc_analysis and
\* _use_case_reports, which it computes when they are None.
_auto_load_or_create_target_spec(self, analysed) ==
    IF self.project_root = NoPath \/ falsy(self._current_graph) THEN self
    ELSE _rebuild_migration_plan(
            [use_case_reports_if_none(bc_analysis_if_none(self, analysed), analysed)
             EXCEPT !._target_spec = [outcome |-> "loaded"]],
            analysed)

\* analysed = analyses_of(graph)
_load_graph(self, graph, analysed) ==
    _auto_load_or_create_target_spec(
      _build_use_case_reports(
        _run_bounded_context_analysis(
          _run_smell_analysis(
            _run_rule_check([self EXCEPT !._current_graph = graph], analysed),
            analysed),
          analysed),
        analysed),
      analysed)

_run_event_readiness(self, analysed) ==
    IF falsy(self._current_graph) THEN self
    ELSE _build_use_case_reports(
            [self EXCEPT !._event_readiness =
                analysed.event_readiness[self._violations_by_component]],
            analysed)

\* The graphs a project or a graph file gives, what _snapshot_project_files
\* returns for the files of the project, and an exception of analyze_project
\* (an OSError of export_graph when architecture.json cannot be written).
WindowGraphs == {g \in AnalysisGraphs : g.components[7].layer = "domain"}
Snapshots == {"files", "files_changed"}
RAISED == [outcome |-> "raised"]

InitWindow ==
    /\ GraphIdle
    /\ AnalysesIdle
    /\ pc = "__init__"
    /\ target_data = NoResult
    /\ loaded_spec = NoResult
    /\ classifier_input = NoResult
    /\ classified = NoResult
    /\ window = MainWindow

\* pc is the handler that ran last, or "raised" when it ended by an exception
Handled(handler) ==
    /\ pc' = handler
    /\ UNCHANGED graph_vars
    /\ UNCHANGED analysis_vars
    /\ UNCHANGED <<target_data, loaded_spec, classifier_input, classified>>

OpenProject ==
    /\ window' = [window EXCEPT !.project_root = "root"]
    /\ Handled("_open_project")

AnalyzeProject ==
    /\ window.project_root # NoPath
    /\ \E result \in WindowGraphs \cup {RAISED} :
          IF result = RAISED
          THEN /\ window' = window
               /\ Handled("raised")
          ELSE /\ \E analysed \in {analyses_of(result)} :
                    window' = _load_graph(window, result, analysed)
               /\ Handled("_analyze_project")

OpenGraph ==
    /\ \E graph \in WindowGraphs :
       \E analysed \in {analyses_of(graph)} :
          window' = _load_graph([window EXCEPT !.project_root = "root"], graph, analysed)
    /\ Handled("_open_graph")

RunRuleCheck ==
    /\ ~falsy(window._current_graph)
    /\ \E analysed \in {analyses_of(window._current_graph)} :
          window' = _run_rule_check(window, analysed)
    /\ Handled("_run_rule_check")

RunSmellAnalysis ==
    /\ ~falsy(window._current_graph)
    /\ \E analysed \in {analyses_of(window._current_graph)} :
          window' = _run_smell_analysis(window, analysed)
    /\ Handled("_run_smell_analysis")

RunEventReadiness ==
    /\ ~falsy(window._current_graph)
    /\ \E analysed \in {analyses_of(window._current_graph)} :
          window' = _run_event_readiness(window, analysed)
    /\ Handled("_run_event_readiness")

StartWatch ==
    /\ \E current \in Snapshots :
          window' = [window EXCEPT !._watch_root = "root", !._watch_snapshot = current]
    /\ Handled("start_watch")

\* the timer calls _poll_watch_changes, which calls _run_watch_analysis when the
\* snapshot differs; the flag is set before analyze_project and reset after
\* _load_graph, and the finally clause restores the cursor only
PollWatchChanges ==
    /\ ~(window._watch_in_progress \/ window._watch_root = NoPath)
    /\ \E current \in Snapshots \ {window._watch_snapshot} :
       \E result \in WindowGraphs \cup {RAISED} :
          IF result = RAISED
          THEN /\ window' = [window EXCEPT !._watch_snapshot = current,
                                           !._watch_in_progress = TRUE]
               /\ Handled("raised")
          ELSE /\ \E after \in Snapshots, analysed \in {analyses_of(result)} :
                    window' = [_load_graph([window EXCEPT !._watch_in_progress = TRUE],
                                           result, analysed)
                               EXCEPT !._watch_snapshot = after,
                                      !._watch_in_progress = FALSE]
               /\ Handled("_run_watch_analysis")

NextWindow ==
    \/ OpenProject
    \/ AnalyzeProject
    \/ OpenGraph
    \/ RunRuleCheck
    \/ RunSmellAnalysis
    \/ RunEventReadiness
    \/ StartWatch
    \/ PollWatchChanges

SpecWindow == InitWindow /\ [][NextWindow]_vars

(***************************************************************************)
(* Helpers of the properties.                                              *)
(***************************************************************************)
Resolvable(dep) ==
    /\ dep.source_id \in DOMAIN components_by_id(components)
    /\ dep.target_id \in DOMAIN components_by_id(components)

LayerOf(cid) == map_layer(components_by_id(components)[cid].layer)

\* Number of violations of rule rule_id.
RuleCount(rule_id) ==
    Cardinality({i \in DOMAIN violations : violations[i].rule_id = rule_id})

\* Number of violations of rule rule_id reported for the edge dep.
EdgeRuleCount(rule_id, dep) ==
    Cardinality({i \in DOMAIN violations :
                    /\ violations[i].rule_id = rule_id
                    /\ violations[i].source_component_id = dep.source_id
                    /\ violations[i].target_component_id = dep.target_id
                    /\ violations[i].dependency_kind = dep.kind})

\* A graph of two components of layers source_layer and target_layer and the
\* single import dependency from the first to the second.
IsScenario(source_layer, target_layer) ==
    /\ Len(components) = 2
    /\ Len(dependencies) = 1
    /\ dependencies[1].kind = "import"
    /\ Resolvable(dependencies[1])
    /\ dependencies[1].source_id # dependencies[1].target_id
    /\ components_by_id(components)[dependencies[1].source_id].layer = source_layer
    /\ components_by_id(components)[dependencies[1].target_id].layer = target_layer

Analyzed == pc \in {"analyzed", "summarized"}

(***************************************************************************)
(* C1.  Scenario C as stated: application -> outbound_adapter (import)      *)
(* yields exactly one APPLICATION_DEPENDS_ON_ADAPTER warning and no         *)
(* FORBIDDEN_LAYER_DEPENDENCY.                                              *)
(***************************************************************************)
C1_ScenarioC_Original ==
    (Analyzed /\ IsScenario("application", "outbound_adapter")) =>
        /\ RuleCount("APPLICATION_DEPENDS_ON_ADAPTER") = 1
        /\ \A i \in DOMAIN violations :
              violations[i].rule_id = "APPLICATION_DEPENDS_ON_ADAPTER"
                => violations[i].severity = "warning"
        /\ RuleCount("FORBIDDEN_LAYER_DEPENDENCY") = 0

(***************************************************************************)
(* C1 amended.  Scenario C yields exactly two violations: one               *)
(* FORBIDDEN_LAYER_DEPENDENCY warning followed by one                       *)
(* APPLICATION_DEPENDS_ON_ADAPTER warning, because outbound_adapter is not  *)
(* in ALLOWED_DEPENDENCIES[application].                                    *)
(***************************************************************************)
C1_ScenarioC ==
    (Analyzed /\ IsScenario("application", "outbound_adapter")) =>
        /\ "outbound_adapter" \notin ALLOWED_DEPENDENCIES["application"]
        /\ Len(violations) = 2
        /\ violations[1].rule_id = "FORBIDDEN_LAYER_DEPENDENCY"
        /\ violations[1].severity = "warning"
        /\ violations[2].rule_id = "APPLICATION_DEPENDS_ON_ADAPTER"
        /\ violations[2].severity = "warning"

C1_Witness ==
    /\ pc = "analyzed"
    /\ IsScenario("application", "outbound_adapter")
    /\ Len(violations) = 2

(***************************************************************************)
(* C2.  For every dependency with both endpoints in the graph: at least    *)
(* one FORBIDDEN_LAYER_DEPENDENCY violation is reported for the edge when  *)
(* the target's layer is outside ALLOWED_DEPENDENCIES[source's layer], and *)
(* none when it is inside.                                                 *)
(***************************************************************************)
C2_ForbiddenIffNotAllowed ==
    Analyzed =>
        \A i \in DOMAIN dependencies :
            LET dep == dependencies[i]
                n == EdgeRuleCount("FORBIDDEN_LAYER_DEPENDENCY", dep)
            IN  Resolvable(dep) =>
                    IF LayerOf(dep.target_id)
                          \in ALLOWED_DEPENDENCIES[LayerOf(dep.source_id)]
                    THEN n = 0
                    ELSE n >= 1

C2_Witness ==
    /\ pc = "analyzed"
    /\ \E i, j \in DOMAIN dependencies :
          /\ Resolvable(dependencies[i])
          /\ Resolvable(dependencies[j])
          /\ LayerOf(dependencies[i].target_id)
                \notin ALLOWED_DEPENDENCIES[LayerOf(dependencies[i].source_id)]
          /\ LayerOf(dependencies[j].target_id)
                \in ALLOWED_DEPENDENCIES[LayerOf(dependencies[j].source_id)]
          /\ EdgeRuleCount("FORBIDDEN_LAYER_DEPENDENCY", dependencies[i]) = 1
          /\ EdgeRuleCount("FORBIDDEN_LAYER_DEPENDENCY", dependencies[j]) = 0

(***************************************************************************)
(* C3.  score_project returns 100 for the empty list, a value in 0..100    *)
(* for every list, and for a list with one more violation appended never   *)
(* a larger value than for the list before.                                *)
(***************************************************************************)
C3_ScoreBoundedMonotone ==
    /\ (pc = "scored" /\ violations = <<>>) => score = 100
    /\ pc = "scored" => score \in 0..100
    /\ (pc = "collected" /\ violations # <<>>) =>
            score_project(violations) <= score

\* The clamp at 0 is reached, after scores strictly between 0 and 100.
C3_Witness ==
    /\ pc = "scored"
    /\ Len(violations) = MaxViolations
    /\ score = 0
    /\ score_loop(violations, 1, 100) < 0

(***************************************************************************)
(* C4.  Scenario A: domain -> inbound_adapter (import) yields a            *)
(* DOMAIN_DEPENDS_ON_ADAPTER error and a FORBIDDEN_LAYER_DEPENDENCY        *)
(* warning, and the summary score is 100 - (7+5) - (3+0) = 85.             *)
(***************************************************************************)
C4_ScenarioA ==
    (pc = "summarized" /\ IsScenario("domain", "inbound_adapter")) =>
        /\ \E i \in DOMAIN violations :
              /\ violations[i].rule_id = "DOMAIN_DEPENDS_ON_ADAPTER"
              /\ violations[i].severity = "error"
        /\ \E i \in DOMAIN violations :
              /\ violations[i].rule_id = "FORBIDDEN_LAYER_DEPENDENCY"
              /\ violations[i].severity = "warning"
        /\ summary.score = 85
        /\ summary.score = 100 - (7 + 5) - (3 + 0)

C4_Witness ==
    /\ pc = "summarized"
    /\ IsScenario("domain", "inbound_adapter")
    /\ summary.total_violations = 2

(***************************************************************************)
(* C5.  A clean graph has no violations: when every dependency with both   *)
(* endpoints in the graph has its target layer in                          *)
(* ALLOWED_DEPENDENCIES[source layer], run_rule_analysis returns an empty  *)
(* violation list and a summary score of 100.                              *)
(***************************************************************************)
CleanGraph ==
    \A i \in DOMAIN dependencies :
        Resolvable(dependencies[i]) =>
            LayerOf(dependencies[i].target_id)
                \in ALLOWED_DEPENDENCIES[LayerOf(dependencies[i].source_id)]

C5_CleanGraphNoViolations ==
    (pc = "summarized" /\ CleanGraph) =>
        /\ violations = <<>>
        /\ summary.total_violations = 0
        /\ summary.score = 100

\* Scenario B: application -> domain.
C5_Witness ==
    /\ pc = "summarized"
    /\ CleanGraph
    /\ IsScenario("application", "domain")
    /\ summary.score = 100

(***************************************************************************)
(* Helpers of the flow properties.                                         *)
(***************************************************************************)
ComponentIds == DOMAIN components_by_id(components)

NodeIds(nodes) == [i \in DOMAIN nodes |-> nodes[i].id]

NoRepeat(path) == \A i, j \in DOMAIN path : path[i] = path[j] => i = j

\* The path holds a component of layer outbound_port or outbound_adapter.
ReachesOutbound(path) ==
    \E i \in DOMAIN path :
        /\ path[i] \in ComponentIds
        /\ components_by_id(components)[path[i]].layer
              \in {"outbound_port", "outbound_adapter"}

StartNeighbors ==
    get_flow_neighbors(components_by_id(components)[start_id],
                       components_by_id(components), dependencies)

(***************************************************************************)
(* C6.  A flow or report function called with an id that is no component   *)
(* of the graph fails with NotFoundError and never returns an empty        *)
(* result.                                                                 *)
(***************************************************************************)
C6_UnknownIdRaisesNotFoundError ==
    (pc \in {"flowed", "reported"} /\ start_id \notin ComponentIds) =>
        flow.outcome = "NotFoundError"

(***************************************************************************)
(* C7.  No component id occurs twice in a path enumerated by               *)
(* compute_flow_paths, nor in the node list compute_flow_path returns.     *)
(***************************************************************************)
C7_NoRepeatedNode ==
    pc \in {"flowed", "reported"} =>
        /\ \A i \in DOMAIN paths : NoRepeat(paths[i])
        /\ flow.outcome = "returned" => NoRepeat(NodeIds(flow.nodes))

\* Two enumerated paths of sibling branches run through the same component.
C7_Witness ==
    /\ pc = "flowed"
    /\ Len(flow.nodes) = 3
    /\ \E i, j \in DOMAIN paths :
          /\ paths[i] # paths[j]
          /\ \E k \in DOMAIN paths[i], m \in DOMAIN paths[j] :
                k > 1 /\ k # m /\ paths[i][k] = paths[j][m]

(***************************************************************************)
(* C8.  For max_depth >= 0 every enumerated path, and the returned node    *)
(* list, has at most max_depth + 1 nodes.                                  *)
(***************************************************************************)
C8_LengthAtMostDepthPlusOne ==
    (pc \in {"flowed", "reported"} /\ max_depth >= 0) =>
        /\ \A i \in DOMAIN paths : Len(paths[i]) <= max_depth + 1
        /\ flow.outcome = "returned" => Len(flow.nodes) <= max_depth + 1

\* The depth limit cuts a path that a larger limit would extend.
C8_Witness ==
    /\ pc = "flowed"
    /\ max_depth = 1
    /\ Len(flow.nodes) = 2
    /\ Len(compute_flow_path(components, dependencies, start_id, 2).nodes) = 3

(***************************************************************************)
(* C9.  As stated: a start id that is a component without flow neighbors   *)
(* (every component of layer unknown or outbound_adapter is one) makes     *)
(* compute_flow_path return the single-node path [start] and no edges.     *)
(***************************************************************************)
C9_SingleNodePath_Original ==
    (/\ pc \in {"flowed", "reported"}
     /\ start_id \in ComponentIds
     /\ StartNeighbors = <<>>) =>
        /\ flow.outcome = "returned"
        /\ NodeIds(flow.nodes) = <<start_id>>
        /\ flow.edges = <<>>

(***************************************************************************)
(* C9 amended.  For max_depth >= 0, a start id that is a component without *)
(* flow neighbors makes compute_flow_path return the single-node path      *)
(* [start] and no edges; every component of layer unknown or               *)
(* outbound_adapter has no flow neighbors.                                 *)
(***************************************************************************)
C9_SingleNodePath ==
    (pc \in {"flowed", "reported"} /\ start_id \in ComponentIds) =>
        /\ components_by_id(components)[start_id].layer
              \in {"unknown", "outbound_adapter"} => StartNeighbors = <<>>
        /\ (StartNeighbors = <<>> /\ max_depth >= 0) =>
              /\ flow.outcome = "returned"
              /\ NodeIds(flow.nodes) = <<start_id>>
              /\ flow.edges = <<>>

\* The start has dependencies in both directions and still no flow neighbor.
C9_Witness ==
    /\ pc = "flowed"
    /\ max_depth >= 0
    /\ start_id \in ComponentIds
    /\ components_by_id(components)[start_id].layer \in {"unknown", "outbound_adapter"}
    /\ outgoing(dependencies, start_id) # <<>>
    /\ incoming(dependencies, start_id) # <<>>
    /\ NodeIds(flow.nodes) = <<start_id>>
    /\ flow.edges = <<>>

(***************************************************************************)
(* C10.  The returned path is an enumerated path that is maximal under     *)
(* (reaches an outbound port or adapter, length): no enumerated path that  *)
(* reaches one is passed over for one that does not, and no enumerated     *)
(* path of equal outbound-reachability is strictly longer.                 *)
(***************************************************************************)
C10_BestPathIsMaximal ==
    (pc \in {"flowed", "reported"} /\ paths # <<>>) =>
        LET best == NodeIds(flow.nodes)
        IN  /\ \E i \in DOMAIN paths : paths[i] = best
            /\ \A i \in DOMAIN paths :
                  /\ ReachesOutbound(paths[i]) => ReachesOutbound(best)
                  /\ ReachesOutbound(paths[i]) = ReachesOutbound(best)
                        => Len(paths[i]) <= Len(best)

\* An outbound-reaching path is preferred to an earlier enumerated one that is not.
C10_Witness ==
    /\ pc = "flowed"
    /\ Len(paths) >= 2
    /\ ~ReachesOutbound(paths[1])
    /\ ReachesOutbound(NodeIds(flow.nodes))
    /\ \E i \in DOMAIN paths : i > 1 /\ paths[i] = NodeIds(flow.nodes)

(***************************************************************************)
(* Helpers of the properties of the bounded-context analysis.              *)
(***************************************************************************)
\* graph.dependencies without the dangling ones
ResolvableDependencies == SelectSeq(dependencies, Resolvable)

HasDangling == \E i \in DOMAIN dependencies : ~Resolvable(dependencies[i])

ContextsAnalyzed == bc_result # NoResult

\* The indexes of the contexts whose component_ids list cid.
ContextsOf(cid) ==
    {k \in DOMAIN bc_result.contexts :
        \E i \in DOMAIN bc_result.contexts[k].component_ids :
            bc_result.contexts[k].component_ids[i] = cid}

\* The prefix that groups the component cid of the graph.
PrefixOf(cid) == extract_bc_prefix(components_by_id(components)[cid].package)

\* The package prefix of the context bc_id.
ContextPrefix(bc_id) ==
    bc_result.contexts[CHOOSE k \in DOMAIN bc_result.contexts :
                          bc_result.contexts[k].id = bc_id].package_prefixes[1]

\* Number of dependencies of the graph from a component of prefix s to one of prefix t.
InterContextCount(s, t) ==
    Cardinality({i \in DOMAIN dependencies :
                    /\ Resolvable(dependencies[i])
                    /\ PrefixOf(dependencies[i].source_id) = s
                    /\ PrefixOf(dependencies[i].target_id) = t})

(***************************************************************************)
(* C11.  A dangling dependency is skipped by every analysis: each result   *)
(* is the result on the graph without its dangling dependencies, no        *)
(* violation and no path node names an id that is not a component, the     *)
(* relation counts are the counts of the resolvable dependencies, and      *)
(* each of the three analyses returns.                                     *)
(***************************************************************************)
C11_DanglingSkipped ==
    /\ summary # NoSummary =>
          /\ violations = analyze_layer_rules(components, ResolvableDependencies)
          /\ \A i \in DOMAIN violations :
                /\ violations[i].source_component_id \in DOMAIN components_by_id(components)
                /\ violations[i].target_component_id \in DOMAIN components_by_id(components)
    /\ flow # NoFlow =>
          /\ flow.outcome = "returned"
          /\ flow = compute_flow_path(components, ResolvableDependencies, start_id, max_depth)
          /\ \A i \in DOMAIN flow.nodes :
                flow.nodes[i].id \in DOMAIN components_by_id(components)
          /\ \A i \in DOMAIN flow.edges : Resolvable(flow.edges[i])
    /\ ContextsAnalyzed =>
          /\ bc_result.outcome = "returned"
          /\ bc_result = analyze_bounded_contexts(components, ResolvableDependencies)
          /\ \A i \in DOMAIN bc_result.relations :
                bc_result.relations[i].dependency_count =
                    InterContextCount(ContextPrefix(bc_result.relations[i].source_bc_id),
                                      ContextPrefix(bc_result.relations[i].target_bc_id))

\* The three analyses have run on a graph with a dangling dependency and a
\* resolvable one that yields a flow edge and a relation.
C11_Witness ==
    /\ pc = "selected"
    /\ HasDangling
    /\ summary # NoSummary
    /\ flow # NoFlow /\ Len(flow.nodes) >= 2
    /\ ContextsAnalyzed /\ bc_result.relations # <<>>

(***************************************************************************)
(* C12.  With unique component ids, every component id of the graph is in  *)
(* the component_ids of exactly one bounded context, once.                 *)
(***************************************************************************)
C12_ExactlyOneContext ==
    ContextsAnalyzed =>
        /\ \A cid \in DOMAIN components_by_id(components) : Cardinality(ContextsOf(cid)) = 1
        /\ \A k \in DOMAIN bc_result.contexts :
              LET ids == bc_result.contexts[k].component_ids
              IN  /\ \A i, j \in DOMAIN ids : ids[i] = ids[j] => i = j
                  /\ \A i \in DOMAIN ids : ids[i] \in DOMAIN components_by_id(components)

\* Two components share a context through the three-part prefix and a third
\* component, of the two-part package of the same root, has its own.
C12_Witness ==
    /\ ContextsAnalyzed
    /\ Len(bc_result.contexts) = 2
    /\ \E k \in DOMAIN bc_result.contexts :
          /\ Len(bc_result.contexts[k].component_ids) = 2
          /\ bc_result.contexts[k].package_prefixes[1] = <<"a", ".", "b", ".", "c">>
    /\ \E k \in DOMAIN bc_result.contexts :
          bc_result.contexts[k].package_prefixes[1] = <<"a", ".", "b">>

(***************************************************************************)
(* C13.  The relation list holds at most one BcRelation per unordered pair *)
(* of contexts, also with dependencies in both directions, and no relation *)
(* from a context to itself.                                               *)
(***************************************************************************)
C13_OneRelationPerPair ==
    ContextsAnalyzed =>
        LET rs == bc_result.relations
        IN  /\ \A i, j \in DOMAIN rs :
                  {rs[i].source_bc_id, rs[i].target_bc_id} =
                  {rs[j].source_bc_id, rs[j].target_bc_id} => i = j
            /\ \A i \in DOMAIN rs : rs[i].source_bc_id # rs[i].target_bc_id

\* Dependencies run in both directions between two contexts and the pair has
\* its single relation.
C13_Witness ==
    /\ ContextsAnalyzed
    /\ Len(bc_result.relations) = 1
    /\ bc_result.relations[1].bidirectional
    /\ InterContextCount(ContextPrefix(bc_result.relations[1].source_bc_id),
                         ContextPrefix(bc_result.relations[1].target_bc_id)) > 0
    /\ InterContextCount(ContextPrefix(bc_result.relations[1].target_bc_id),
                         ContextPrefix(bc_result.relations[1].source_bc_id)) > 0

(***************************************************************************)
(* C14.  A relation for contexts (S, T) is downstream when the count of    *)
(* dependencies S -> T is positive and the count T -> S is zero,           *)
(* partnership when both are positive, unknown otherwise; upstream,        *)
(* shared_kernel, customer_supplier and generic_subdomain never occur.     *)
(***************************************************************************)
C14_RelationClassified ==
    ContextsAnalyzed =>
        \A i \in DOMAIN bc_result.relations :
            LET r == bc_result.relations[i]
                forward == InterContextCount(ContextPrefix(r.source_bc_id),
                                             ContextPrefix(r.target_bc_id))
                backward == InterContextCount(ContextPrefix(r.target_bc_id),
                                              ContextPrefix(r.source_bc_id))
            IN  /\ r.relation_type \in BcRelationType
                /\ r.relation_type \notin {"upstream", "shared_kernel",
                                           "customer_supplier", "generic_subdomain"}
                /\ (forward > 0 /\ backward = 0) => r.relation_type = "downstream"
                /\ (forward > 0 /\ backward > 0) => r.relation_type = "partnership"
                /\ ~(forward > 0) => r.relation_type = "unknown"

\* A pair of contexts with one dependency each way is classified partnership.
C14_Witness ==
    /\ ContextsAnalyzed
    /\ \E i \in DOMAIN bc_result.relations :
          /\ bc_result.relations[i].relation_type = "partnership"
          /\ bc_result.relations[i].dependency_count = 1
          /\ InterContextCount(ContextPrefix(bc_result.relations[i].target_bc_id),
                               ContextPrefix(bc_result.relations[i].source_bc_id)) = 1

(***************************************************************************)
(* C15.  After detect_repository_leaks, a domain component with a          *)
(* persistence/ORM marker in its imports or annotations has a              *)
(* repository_leak smell of severity error, and an application or          *)
(* inbound_adapter component with a marker has one of severity info.       *)
(***************************************************************************)
C15_RepositoryLeakSeverity ==
    pc = "leaks" =>
        \A i \in DOMAIN components :
            LET comp == components[i]
                flagged(severity) ==
                    \E k \in DOMAIN smells :
                        /\ smells[k].component_id = comp.id
                        /\ smells[k].smell_type = "repository_leak"
                        /\ smells[k].severity = severity
            IN  /\ (comp.layer = "domain" /\ has_repo_import(comp)) => flagged("error")
                /\ (comp.layer \in {"application", "inbound_adapter"} /\ has_repo_import(comp))
                      => flagged("info")

(***************************************************************************)
(* C16.  score_use_case_event_readiness returns an integer score in        *)
(* 0..100, namely the fixed awards plus round(coupling * 25), minus 10     *)
(* with zero rule violations on the path, clamped; the level is high       *)
(* exactly when score >= 70, medium exactly when 40 <= score < 70 and low  *)
(* exactly when score < 40.                                                *)
(***************************************************************************)
C16_ScoreAndLevel ==
    readiness # NoResult =>
        /\ readiness.score \in 0..100
        /\ readiness.score =
              (IF readiness_points(metrics) < 0 THEN 0
               ELSE IF readiness_points(metrics) > 100 THEN 100
               ELSE readiness_points(metrics))
        /\ readiness.level \in {"high", "medium", "low"}
        /\ readiness.level = "high" <=> readiness.score >= 70
        /\ readiness.level = "medium" <=> (40 <= readiness.score /\ readiness.score < 70)
        /\ readiness.level = "low" <=> readiness.score < 40

\* The awards add up to more than 100 and the score returned is 100, level high.
C16_Witness ==
    /\ pc = "rated"
    /\ readiness_points(metrics) > 100
    /\ readiness.score = 100
    /\ readiness.level = "high"

(***************************************************************************)
(* C19.  build_refactoring_suggestions returns no two suggestions of the   *)
(* same id, for every DDD summary, event summary and bounded-context       *)
(* summary of a report, and the readiness suggestions are among them only  *)
(* when the readiness level is medium or high.                             *)
(***************************************************************************)
C19_SuggestionsDeduplicated ==
    pc = "suggested" =>
        LET rs == report.refactoring_suggestions
        IN  /\ \A i, j \in DOMAIN rs : rs[i].id = rs[j].id => i = j
            /\ (\E i \in DOMAIN rs : rs[i].category = "event")
                  => report.event_summary.readiness_level \in {"medium", "high"}

\* Three readiness suggestions are forwarded next to the suggestions of the three
\* DDD smells and of the cross-context flow: seven suggestions.
C19_Witness ==
    /\ pc = "suggested"
    /\ report.event_summary.readiness_level \in {"medium", "high"}
    /\ Len(report.event_summary.main_suggestions) = 3
    /\ Len(report.refactoring_suggestions) = 7

(***************************************************************************)
(* Properties of the migration planner.                                    *)
(***************************************************************************)
ItemIds(items) == [i \in DOMAIN items |-> items[i].id]

PhasePlacement(p) == [k \in DOMAIN p.phases |-> <<p.phases[k].id, ItemIds(p.phases[k].items)>>]

PhaseOneTypes == {"move_to_layer", "fix_repository_leak", "introduce_port"}

PhaseTwoTypes == {"split_service", "extract_domain_logic", "restructure_use_case"}

ItemsOfTypes(items, types) == SelectSeq(items, LAMBDA item : item.item_type \in types)

C18_ThreePhasesByType ==
    pc \in {"planned", "grouped"} =>
        \A i \in DOMAIN plan :
            /\ [k \in DOMAIN plan[i].phases |-> plan[i].phases[k].id]
                   = <<"phase_1", "phase_2", "phase_3">>
            /\ plan[i].phases[1].items = ItemsOfTypes(plan[i].all_items, PhaseOneTypes)
            /\ plan[i].phases[2].items = ItemsOfTypes(plan[i].all_items, PhaseTwoTypes)
            /\ plan[i].phases[3].items
                   = ItemsOfTypes(plan[i].all_items,
                                  MigrationItemType \ (PhaseOneTypes \cup PhaseTwoTypes))

\* A plan with items in each of the three phases, a saga among those of phase 3.
C18_Witness ==
    /\ pc \in {"planned", "grouped"}
    /\ \E i \in DOMAIN plan :
           /\ \A k \in 1..3 : plan[i].phases[k].items # <<>>
           /\ \E a \in DOMAIN plan[i].phases[3].items :
                  plan[i].phases[3].items[a].item_type = "introduce_saga"

(***************************************************************************)
(* Properties of the CSV export.                                           *)
(***************************************************************************)
\* The records of a text read with the rules of RFC 4180.  A piece is outside quotes
\* when an even number of double quotes precedes it; a newline outside quotes ends a
\* record and a comma outside quotes ends a field; a field that starts with a double
\* quote stands for what is between its outer quotes, a doubled quote for one quote.
OutsideQuotes(text, i) == Cardinality({j \in 1..(i - 1) : text[j] = "\""}) % 2 = 0

\* the parts of text between the positions of seps, in order
PartsBetween(text, seps) ==
    LET nth(k) == CHOOSE s \in seps : Cardinality({t \in seps : t < s}) = k - 1
        bound(k) == IF k = 0 THEN 0
                    ELSE IF k = Cardinality(seps) + 1 THEN Len(text) + 1 ELSE nth(k)
    IN  [k \in 1..(Cardinality(seps) + 1) |-> SubSeq(text, bound(k - 1) + 1, bound(k) - 1)]

Unquoted(field) ==
    IF field # <<>> /\ field[1] = "\""
    THEN LET content == SubSeq(field, 2, Len(field) - 1)
             kept == {j \in DOMAIN content :
                         \/ content[j] # "\""
                         \/ Cardinality({h \in 1..j : content[h] = "\""}) % 2 = 1}
             nth(k) == CHOOSE j \in kept : Cardinality({h \in kept : h < j}) = k - 1
         IN  [k \in 1..Cardinality(kept) |-> content[nth(k)]]
    ELSE field

rfc4180_records(text) ==
    LET lines == PartsBetween(text, {i \in DOMAIN text :
                                        text[i] = "\n" /\ OutsideQuotes(text, i)})
        fields(line) == PartsBetween(line, {i \in DOMAIN line :
                                               line[i] = "," /\ OutsideQuotes(line, i)})
    IN  [r \in DOMAIN lines |->
            [f \in DOMAIN fields(lines[r]) |-> Unquoted(fields(lines[r])[f])]]

CsvHeaderFields ==
    <<<<"phase">>, <<"item_id">>, <<"priority">>, <<"type">>, <<"title">>, <<"description">>,
      <<"rationale">>, <<"components">>, <<"use_cases">>, <<"bounded_contexts">>, <<"tags">>>>

\* the 11 field values of the row of an item
CsvFieldValues(phase, item) ==
    <<<<phase.name>>, item.id, <<item.priority>>, <<item.item_type>>, item.title,
      item.description, item.rationale,
      join(<<";">>, item.related_components), join(<<";">>, item.related_use_cases),
      join(<<";">>, item.related_bc_ids), join(<<";">>, item.tags)>>

CsvExpectedRecords(p) ==
    <<CsvHeaderFields>>
    \o concat_all([k \in DOMAIN p.phases |->
           [i \in DOMAIN p.phases[k].items |->
               CsvFieldValues(p.phases[k], p.phases[k].items[i])]])

\* C20: the exported text is the header and one row per item, and reading it with
\* the rules of RFC 4180 gives the header and, for each item in phase order, a
\* record of exactly 11 fields equal to the item's 11 field values, list-valued
\* fields joined with ";".
C20_CsvRoundTrip ==
    pc = "rendered" =>
        rfc4180_records(csv) = CsvExpectedRecords(plan[Len(plan)])

(***************************************************************************)
(* Properties of the target-architecture loader.                           *)
(***************************************************************************)
\* a bounded context or a blueprint of the file has no "id"
LacksRequiredKey(data) ==
    \/ /\ data.boundedContexts # MISSING
       /\ \E i \in DOMAIN data.boundedContexts.value :
              data.boundedContexts.value[i].id = MISSING
    \/ /\ data.useCaseBlueprints # MISSING
       /\ \E i \in DOMAIN data.useCaseBlueprints.value :
              data.useCaseBlueprints.value[i].id = MISSING

\* C21: loading a file with a bounded context or a blueprint that lacks "id" raises
\* ConfigError, and returns no spec.
C21_MissingKeyRaisesConfigError ==
    (pc = "loaded" /\ LacksRequiredKey(target_data)) =>
        /\ loaded_spec.outcome = "raised"
        /\ loaded_spec.error = "ConfigError"

(***************************************************************************)
(* Properties of the classifier.                                           *)
(***************************************************************************)
\* the package has the domain marker or an annotation is a domain annotation
DomainSignal(in) ==
    \/ contains(<<".", "d", "o", "m", "a", "i", "n", ".">>, lower(in.package))
    \/ annotation_set_of(in.annotations) \cap in.rules.domain_annotations # {}

\* C22: a class with the domain package marker or a domain annotation is classified
\* domain, whatever its other annotations, its imports, its name and is_interface.
C22_DomainOutranks ==
    (pc = "classified" /\ DomainSignal(classifier_input)) => classified = "domain"

\* A class classified domain that also has an inbound annotation, a persistence
\* import and a service name.
C22_Witness ==
    /\ pc = "classified"
    /\ DomainSignal(classifier_input)
    /\ annotation_set_of(classifier_input.annotations)
           \cap classifier_input.rules.inbound_annotations # {}
    /\ classifier_input.imports = <<<<"x", ".", "J", "p", "a", "R", "e", "p", "o", "s", "i", "t", "o", "r", "y">>>>
    /\ classifier_input.name = <<"P", "a", "y", "S", "e", "r", "v", "i", "c", "e">>
    /\ classified = "domain"

\* C28: no two items of a migration plan have the same id, with the violation index
\* of the main window, which lists a violation under its source and under its target.
C28_UniqueItemIds ==
    pc = "planned" =>
        \A i \in DOMAIN plan :
            \A a \in DOMAIN plan[i].all_items : \A b \in DOMAIN plan[i].all_items :
                plan[i].all_items[a].id = plan[i].all_items[b].id => a = b


(***************************************************************************)
(* C25.  compute_flow_paths returns on every explored graph, with cycles,  *)
(* self-loops and dangling endpoints among its dependencies, and for every *)
(* max_depth: no call of dfs nests deeper than the number of components,   *)
(* and when dfs(start_id, 0, path, visited) has returned, the shared list  *)
(* path and the shared set visited are empty again.                        *)
(***************************************************************************)
C25_DfsReturnsClean ==
    pc \in {"flowed", "reported"} =>
        LET st == dfs_run(components, dependencies, start_id, max_depth)
        IN  /\ st.paths = paths
            /\ st.path = <<>>
            /\ st.visited = {}
            /\ \A i \in DOMAIN paths : Len(paths[i]) <= Cardinality(ComponentIds)

\* The search walked along a dependency that lies on a cycle of two components.
C25_Witness ==
    /\ pc = "flowed"
    /\ Len(flow.nodes) >= 2
    /\ \E i, j \in DOMAIN dependencies :
          /\ dependencies[i].source_id = flow.nodes[1].id
          /\ dependencies[i].target_id = flow.nodes[2].id
          /\ dependencies[j].source_id = flow.nodes[2].id
          /\ dependencies[j].target_id = flow.nodes[1].id


(***************************************************************************)
(* C26.  Every two consecutive nodes of an enumerated flow path follow one *)
(* of the six layer steps; so a path holds at most one component of each   *)
(* layer and at most 6 nodes, whatever the graph and however large         *)
(* max_depth is.                                                           *)
(***************************************************************************)
C26_PathsFollowLayerSteps ==
    pc \in {"flowed", "measured"} =>
        LET layer_of(cid) == components_by_id(components)[cid].layer
            steps == {<<"inbound_adapter", "inbound_port">>,
                      <<"inbound_port", "application">>,
                      <<"application", "domain">>,
                      <<"application", "outbound_port">>,
                      <<"domain", "outbound_port">>,
                      <<"outbound_port", "outbound_adapter">>}
        IN  \A i \in DOMAIN paths :
                /\ \A k \in 1..(Len(paths[i]) - 1) :
                      <<layer_of(paths[i][k]), layer_of(paths[i][k + 1])>> \in steps
                /\ \A k, n \in DOMAIN paths[i] :
                      layer_of(paths[i][k]) = layer_of(paths[i][n]) => k = n
                /\ Len(paths[i]) <= 6

\* With max_depth = 100 a path of six nodes is enumerated beside a path that
\* takes another branch, in a graph with a second application component.
C26_Witness ==
    /\ pc = "flowed"
    /\ max_depth = 100
    /\ components[7].layer = "application"
    /\ \E i \in DOMAIN dependencies :
          dependencies[i].source_id = "c3" /\ dependencies[i].target_id = "c7"
    /\ \E i, j \in DOMAIN paths : Len(paths[i]) = 6 /\ Len(paths[j]) = 5

(***************************************************************************)
(* C27.  The metrics analyze_use_case_event_readiness derives from the     *)
(* extracted flow have num_external_systems <= 1 and                       *)
(* num_outbound_ports <= 1, and every suggestion it returns has the type   *)
(* introduce_domain_event.                                                 *)
(***************************************************************************)
C27_OnlyDomainEventSuggested ==
    pc = "measured" =>
        /\ metrics.num_external_systems <= 1
        /\ metrics.num_outbound_ports <= 1
        /\ \A i \in DOMAIN event_suggestions :
              event_suggestions[i].suggestion_type = "introduce_domain_event"

\* A flow through the domain to one of two adapters of the port, across three
\* package prefixes and with a compensation hint, yields the one suggestion.
C27_Witness ==
    /\ pc = "measured"
    /\ components[7].layer = "outbound_adapter"
    /\ \E i, j \in DOMAIN dependencies :
          /\ dependencies[i].source_id = "c6" /\ dependencies[i].target_id = "c5"
          /\ dependencies[j].source_id = "c7" /\ dependencies[j].target_id = "c5"
    /\ metrics.path_length = 5
    /\ metrics.num_external_systems = 1
    /\ metrics.num_bounded_contexts = 3
    /\ metrics.has_compensation_logic_hint
    /\ Len(event_suggestions) = 1


(***************************************************************************)
(* C29.  Every per-type ratio of the project smell summary lies in [0, 1]: *)
(* the number of findings of a type is at most the population it is        *)
(* divided by.                                                             *)
(***************************************************************************)
C29_RatiosWithinUnit ==
    pc = "smelled" =>
        \A r \in {smells.anemic_domain_ratio, smells.god_service_ratio,
                  smells.repository_leak_ratio, smells.cross_aggregate_coupling_ratio} :
            0 <= r.count /\ r.count <= r.population


C24_ArtifactsOfLoadedGraph ==
    pc \in {"_open_graph", "_analyze_project", "_run_watch_analysis"} =>
        LET graph == window._current_graph
        IN  /\ window._violations_by_component = rules_index_of(graph)
            /\ window._smell_summary =
                  analyze_project_smells(graph.components, graph.dependencies)
            /\ window._bc_analysis =
                  analyze_bounded_contexts(graph.components, graph.dependencies)
            /\ window._event_readiness =
                  analyze_project_event_readiness(graph.components, graph.dependencies,
                                                  rules_index_of(graph))
            /\ window._use_case_reports.event_readiness = window._event_readiness

(***************************************************************************)
(* C30.  Between two handlers _watch_in_progress is false, whether the     *)
(* last watch analysis completed or ended by an exception.                 *)
(***************************************************************************)
C30_WatchGuardReleased ==
    window._watch_in_progress = FALSE

====
